---- MODULE Spec2Model ----
(***************************************************************************)
(* A model of haven, a type-directed codec between pytrees (nested maps,   *)
(* sequences and scalars) and dataclass instances: the decode engine       *)
(* (decoding.py), the encode engine (encoding.py), the pytree utilities    *)
(* (utils.py), the dotlist format (formats.py) and the top-level           *)
(* operations (api.py), the type registry (type_registry.py) and the       *)
(* choice providers (choice.py).                                           *)
(*                                                                         *)
(* Python values are tagged records.  Floats are held in tenths (15 is     *)
(* 1.5), strings are TLA+ strings, map keys are strings, and a dotlist     *)
(* token is a sequence of one-character strings.                           *)
(***************************************************************************)
EXTENDS Integers, Sequences, FiniteSets, TLC

VARIABLES op, cls, arg, dc, out, heap, held, calls,
          decoders, cache, req, fresh, threads, pcache

\* the registry of decoders, the cache of get_decoding_fn, the last request
\* made of them, the count of dataclass types met, the threads that use them
\* and the cache of Plugin.get_choices
regVars == <<decoders, cache, req, fresh, threads, pcache>>

vars == <<op, cls, arg, dc, out, heap, held, calls, regVars>>

(***************************************************************************)
(* Bounds of the model.                                                    *)
(***************************************************************************)
MaxNum == 9       \* largest integer a numeric string is parsed to
MaxTokens == 2    \* longest dotlist handed to the api
MaxLen == 2       \* longest list or variadic tuple held by a constructed instance
MaxCalls == 2     \* most update calls made on one instance of the heap
MaxMods == 2      \* most sub-modules of a discovered namespace
MaxRegs == 2      \* most types a program registers decoders for
MaxCached == 1    \* most handlers cached while decoders are still registered
MaxFresh == 130   \* most dataclass types a program decodes
MaxThreads == 2      \* threads that use the caches at once
MaxFrames == 8       \* frames of decode_dataclass the interpreter allows
MaxFlat == 2         \* items of a single-level map handed to deflatten
MaxProviders == 2     \* providers declared by plugin()
MaxEnums == 2         \* enumerations one provider may run

(***************************************************************************)
(* Python values.                                                          *)
(***************************************************************************)
None == [t |-> "none"]
MISSING == [t |-> "MISSING"]
I(n) == [t |-> "int", v |-> n]
F(n) == [t |-> "float", v |-> n]
S(s) == [t |-> "str", v |-> s]
B(b) == [t |-> "bool", v |-> b]
L(s) == [t |-> "list", v |-> s]
Tu(s) == [t |-> "tuple", v |-> s]
M(f) == [t |-> "map", v |-> f]
En(e, m) == [t |-> "enum", cls |-> e, v |-> m]
Inst(c, f) == [t |-> "inst", cls |-> c, v |-> f]
Component(config, func) == [t |-> "component", config |-> config, func |-> func]

EmptyMap == M(<<>>)

IsNum(v) == v.t \in {"int", "float", "bool"}

\* the numeric value of an int, float or bool, in tenths
Num(v) == CASE v.t = "int" -> 10 * v.v
            [] v.t = "float" -> v.v
            [] v.t = "bool" -> IF v.v THEN 10 ELSE 0

\* Python's ==, as dataclass __eq__ and the containers define it
RECURSIVE PyEq(_, _)
PyEq(a, b) ==
    CASE IsNum(a) /\ IsNum(b) -> Num(a) = Num(b)
      [] a.t # b.t -> FALSE
      [] a.t \in {"list", "tuple"} ->
            /\ Len(a.v) = Len(b.v)
            /\ \A i \in 1..Len(a.v) : PyEq(a.v[i], b.v[i])
      [] a.t = "map" ->
            /\ DOMAIN a.v = DOMAIN b.v
            /\ \A k \in DOMAIN a.v : PyEq(a.v[k], b.v[k])
      [] a.t = "inst" ->
            /\ a.cls = b.cls
            /\ DOMAIN a.v = DOMAIN b.v
            /\ \A k \in DOMAIN a.v : PyEq(a.v[k], b.v[k])
      [] a.t = "component" -> FALSE
      [] OTHER -> a = b

(***************************************************************************)
(* Results.  A call returns Ok(value, log) or raises: Fail(error, log).    *)
(* The log lists what the call did, in order.                              *)
(***************************************************************************)
Err(kind, why) == [kind |-> kind, why |-> why]
Ok(v, log) == [ok |-> TRUE, val |-> v, log |-> log]
Fail(e, log) == [ok |-> FALSE, err |-> e, log |-> log]

\* the result r of a call made after the events of log
After(log, r) == [r EXCEPT !.log = log \o @]

\* x = <expr>; <rest>: the value bound to a local name
Bind(x, rest(_)) == rest(x)

\* r = <call>; <rest>: an exception of the call ends the caller too
Then(r, rest(_)) == IF r.ok THEN After(r.log, rest(r.val)) ELSE r

(***************************************************************************)
(* The builtin constructors registered as decoders for the scalar types.   *)
(***************************************************************************)
Digits == <<"0", "1", "2", "3", "4", "5", "6", "7", "8", "9">>

RECURSIVE IntToStr(_)
IntToStr(n) == IF n < 10 THEN Digits[n + 1]
               ELSE IntToStr(n \div 10) \o Digits[(n % 10) + 1]

FloatToStr(n) == IntToStr(n \div 10) \o "." \o Digits[(n % 10) + 1]

Truthy(v) == CASE v.t = "none" -> FALSE
               [] IsNum(v) -> Num(v) # 0
               [] v.t = "str" -> v.v # ""
               [] v.t \in {"list", "tuple"} -> Len(v.v) > 0
               [] v.t = "map" -> DOMAIN v.v # {}
               [] OTHER -> TRUE

\* str(v): the text of a scalar; containers and objects give their repr
py_str_text(v) == CASE v.t = "str" -> v.v
                    [] v.t = "int" -> IntToStr(v.v)
                    [] v.t = "float" -> FloatToStr(v.v)
                    [] v.t = "bool" -> IF v.v THEN "True" ELSE "False"
                    [] v.t = "none" -> "None"
                    [] v.t = "enum" -> v.cls \o "." \o v.v
                    [] OTHER -> "<repr of " \o v.t \o ">"

IsIntLit(s) == \E n \in 0..MaxNum : IntToStr(n) = s
IntLit(s) == CHOOSE n \in 0..MaxNum : IntToStr(n) = s
IsFloatLit(s) == \E n \in 0..(10 * MaxNum + 9) : FloatToStr(n) = s
FloatLit(s) == CHOOSE n \in 0..(10 * MaxNum + 9) : FloatToStr(n) = s

py_str(v) == Ok(S(py_str_text(v)), <<>>)

py_bool(v) == Ok(B(Truthy(v)), <<>>)

py_int(v) ==
    CASE v.t = "int" -> Ok(v, <<>>)
      [] v.t = "bool" -> Ok(I(IF v.v THEN 1 ELSE 0), <<>>)
      [] v.t = "float" -> Ok(I(v.v \div 10), <<>>)
      [] v.t = "str" -> IF IsIntLit(v.v) THEN Ok(I(IntLit(v.v)), <<>>)
                        ELSE Fail(Err("ValueError", "invalid literal for int"), <<>>)
      [] OTHER -> Fail(Err("TypeError", "int() argument"), <<>>)

py_float(v) ==
    CASE v.t = "float" -> Ok(v, <<>>)
      [] v.t \in {"int", "bool"} -> Ok(F(Num(v)), <<>>)
      [] v.t = "str" -> IF IsFloatLit(v.v) THEN Ok(F(FloatLit(v.v)), <<>>)
                        ELSE IF IsIntLit(v.v) THEN Ok(F(10 * IntLit(v.v)), <<>>)
                        ELSE Fail(Err("ValueError", "could not convert string to float"), <<>>)
      [] OTHER -> Fail(Err("TypeError", "float() argument"), <<>>)

(***************************************************************************)
(* Declared types (annotations) and the dataclasses of the model.          *)
(***************************************************************************)
TInt == [k |-> "int"]
TStr == [k |-> "str"]
TFloat == [k |-> "float"]
TBool == [k |-> "bool"]
TAny == [k |-> "any"]
TNone == [k |-> "none"]
Ellipsis == [k |-> "ellipsis"]
TOther == [k |-> "other"]        \* a type with no decoder, such as complex
TList(t) == [k |-> "list", args |-> <<t>>]
TTuple(ts) == [k |-> "tuple", args |-> ts]
TDict(kt, vt) == [k |-> "dict", args |-> <<kt, vt>>]
TUnion(ts) == [k |-> "union", args |-> ts]
TEnum(e) == [k |-> "enum", name |-> e]
TRec(c) == [k |-> "dataclass", name |-> c]
TComponent(c, r) == [k |-> "component", args |-> <<TRec(c), r>>]

EnumMembers(e) == IF e \in {"Color", "Hue"} THEN {"blue", "red"} ELSE {}

\* the scalar type an enumeration also derives from: class Hue(str, Enum)
EnumBase(e) == IF e = "Hue" THEN [k |-> "str"] ELSE [k |-> "none"]

\* a dataclass field: dataclasses.Field with the attributes the codec reads
Fld(n, ty) == [name |-> n, type |-> ty, default |-> MISSING,
               default_factory |-> MISSING, init |-> TRUE, metadata |-> MISSING]
FldD(n, ty, d) == [Fld(n, ty) EXCEPT !.default = d]
FldF(n, ty, d) == [Fld(n, ty) EXCEPT !.default_factory = d]

\* ChoiceMeta (choice.py): the provider's name -> choice map, the key field, outer
ChoiceMeta(choices, key_field, outer) ==
    [choices |-> choices, key_field |-> key_field, outer |-> outer]

\* a choice: a dataclass type, or a function whose first parameter is annotated
ChoiceClass(c) == [kind |-> "dataclass", name |-> c]
ChoiceFunc(n, c) == [kind |-> "function", name |-> n, param |-> TRec(c)]

ComponentChoices == ("a" :> ChoiceFunc("a", "ChildA")) @@ ("b" :> ChoiceFunc("b", "ChildB"))
PlainChoices == ("ChildA" :> ChoiceClass("ChildA2")) @@ ("ChildB" :> ChoiceClass("ChildB2"))
\* choices of which one, Bob, does not declare the key field
UnnamedChoices == ("ChildA" :> ChoiceClass("ChildA2")) @@ ("Bob" :> ChoiceClass("Bob"))
\* choices that name the class that declares the field
SelfChoices == ("Node" :> ChoiceClass("Node")) @@ ("Node2" :> ChoiceClass("Node2"))
               @@ ("Leaf" :> ChoiceClass("Leaf"))

ClassNames == {"Named", "Bob", "Foo", "Model", "Config", "Late", "Pal", "Pair",
               "Bag", "Bad", "Base", "ChildA", "ChildB", "Base2", "ChildA2",
               "ChildB2", "Test", "Test2", "Outer", "Base3", "Test3", "Test4", "Base4", "Test5",
               "NodeBase", "LeafBase", "Leaf", "Node", "Node2", "Shade", "Test5o"}

fields(c) ==
    CASE c = "Named" -> <<Fld("name", TStr)>>
      [] c = "Bob" -> <<FldD("a", TUnion(<<TInt, TNone>>), I(5))>>
      [] c = "Foo" -> <<FldD("x", TUnion(<<TInt, TStr>>), I(0))>>
      [] c = "Model" -> <<FldD("lr", TFloat, F(10)),
                          FldF("layers", TList(TInt), L(<<>>))>>
      [] c = "Config" -> <<FldF("model", TRec("Model"),
                                Inst("Model", ("lr" :> F(10)) @@ ("layers" :> L(<<>>))))>>
      [] c = "Late" -> <<FldD("name", TStr, S("bob")),
                         [Fld("a", TInt) EXCEPT !.init = FALSE]>>
      [] c = "Pal" -> <<FldD("color", TEnum("Color"), En("Color", "red"))>>
      [] c = "Pair" -> <<FldF("p", TTuple(<<TInt, TStr>>), Tu(<<I(5), S("bob")>>)),
                         FldF("q", TTuple(<<TInt, Ellipsis>>), Tu(<<>>))>>
      [] c = "Bag" -> <<FldF("d", TDict(TStr, TUnion(<<TInt, TNone>>)), EmptyMap)>>
      [] c = "Bad" -> <<FldD("z", TList(TOther), None)>>
      [] c = "Base" -> <<Fld("name", TStr)>>
      [] c = "ChildA" -> <<Fld("name", TStr), FldD("a", TInt, I(5))>>
      [] c = "ChildB" -> <<Fld("name", TStr), FldF("b", TDict(TStr, TStr), EmptyMap)>>
      [] c = "Base2" -> <<FldD("name", TStr, S("ChildA"))>>
      [] c = "ChildA2" -> <<FldD("name", TStr, S("ChildA")), FldD("a", TInt, I(5))>>
      [] c = "ChildB2" -> <<FldD("name", TStr, S("ChildA")),
                            FldF("b", TDict(TStr, TStr), EmptyMap)>>
      [] c = "Test" -> <<[Fld("something", TComponent("Base", TStr)) EXCEPT
                            !.metadata = ChoiceMeta(ComponentChoices, "name", FALSE)]>>
      [] c = "Test2" -> <<[Fld("something", TRec("Base2")) EXCEPT
                            !.metadata = ChoiceMeta(PlainChoices, "name", FALSE)]>>
      [] c = "Outer" -> <<FldF("inner", TRec("Test2"), None)>>
      [] c = "Base3" -> <<FldF("name", TStr, S("ChildB"))>>
      [] c = "Test3" -> <<[Fld("something", TRec("Base3")) EXCEPT
                            !.metadata = ChoiceMeta(PlainChoices, "name", FALSE)]>>
      [] c = "Test4" -> <<[Fld("something", TInt) EXCEPT
                            !.metadata = ChoiceMeta(PlainChoices, "name", FALSE)]>>
      [] c = "Base4" -> <<FldD("name", TStr, S("Bob"))>>
      [] c = "Test5" -> <<[FldF("something", TRec("Base4"),
                                Inst("ChildA2", ("name" :> S("ChildA")) @@ ("a" :> I(5))))
                             EXCEPT
                            !.metadata = ChoiceMeta(UnnamedChoices, "name", FALSE)]>>
      [] c = "Shade" -> <<FldD("hue", TEnum("Hue"), En("Hue", "red"))>>
      [] c = "Test5o" -> <<[FldF("something", TRec("Base4"),
                                 Inst("ChildA2", ("name" :> S("ChildA")) @@ ("a" :> I(5))))
                              EXCEPT
                             !.metadata = ChoiceMeta(UnnamedChoices, "name", TRUE)]>>
      [] c = "NodeBase" -> <<FldD("name", TStr, S("Node"))>>
      [] c = "LeafBase" -> <<FldD("name", TStr, S("Leaf"))>>
      [] c = "Leaf" -> <<FldD("name", TStr, S("Leaf"))>>
      [] c = "Node" -> <<FldD("name", TStr, S("Node")),
                         [FldF("nxt", TRec("NodeBase"), EmptyMap) EXCEPT
                            !.metadata = ChoiceMeta(SelfChoices, "name", FALSE)]>>
      [] c = "Node2" -> <<FldD("name", TStr, S("Leaf")),
                          [FldF("nxt", TRec("LeafBase"), EmptyMap) EXCEPT
                             !.metadata = ChoiceMeta(SelfChoices, "name", FALSE)]>>

FieldNames(c) == {fields(c)[i].name : i \in 1..Len(fields(c))}
FieldOf(c, n) == CHOOSE f \in {fields(c)[i] : i \in 1..Len(fields(c))} : f.name = n

(***************************************************************************)
(* The encode engine (encoding.py).  Results are Ok(value, log) or         *)
(* Fail(error, log).                                                       *)
(***************************************************************************)
Drop(f, k) == [x \in DOMAIN f \ {k} |-> f[x]]
Put(f, k, v) == [x \in DOMAIN f \cup {k} |-> IF x = k THEN v ELSE f[x]]
PickKey(ks) == CHOOSE k \in ks : TRUE      \* the next key of a map iteration


RECURSIVE encode(_), encode_seq(_), encode_dict(_, _), encode_dataclass(_, _, _)

\* list(map(encode, x))
encode_seq(s) ==
    IF s = <<>> THEN Ok(<<>>, <<>>)
    ELSE Then(encode(Head(s)), LAMBDA h :
         Then(encode_seq(Tail(s)), LAMBDA r : Ok(<<h>> \o r, <<>>)))

\* the loop of encode_dict over the keys of obj not yet in result
encode_dict(obj, result) ==
    IF DOMAIN obj.v \ DOMAIN result = {} THEN Ok(M(result), <<>>)
    ELSE Bind(PickKey(DOMAIN obj.v \ DOMAIN result), LAMBDA k :
         Then(encode(obj.v[k]), LAMBDA v_ : encode_dict(obj, Put(result, k, v_))))

\* the member's str() in place of its name
encode_enum_str(obj) == Ok(S(py_str_text(obj)), <<>>)

encode_enum(obj) == Ok(S(obj.v), <<>>)

encode_component(obj) == encode(obj.config)

\* the is_dataclass branch of encode: fields i.. of obj into d
encode_dataclass(obj, i, d) ==
    IF i > Len(fields(obj.cls)) THEN Ok(M(d), <<>>)
    ELSE Bind(fields(obj.cls)[i].name, LAMBDA name :
         IF name \notin DOMAIN obj.v
         THEN Fail(Err("AttributeError", "object has no attribute"), <<>>)
         ELSE Bind(encode(obj.v[name]), LAMBDA e :
              IF ~e.ok /\ e.err.kind = "TypeError"
              THEN Fail(Err("ParsingError", "Unable to encode field"), e.log)
              ELSE Then(e, LAMBDA v : encode_dataclass(obj, i + 1, Put(d, name, v)))))

encode(obj) ==
    CASE obj.t \in {"str", "float", "int", "bool"} -> Ok(obj, <<>>)
      [] obj.t \in {"list", "tuple"} -> Then(encode_seq(obj.v), LAMBDA r : Ok(L(r), <<>>))
      [] obj.t = "map" -> encode_dict(obj, <<>>)
      [] obj.t = "enum" -> IF EnumBase(obj.cls).k \in {"str", "float", "int", "bool"}
                           THEN Ok(obj, <<>>)
                           ELSE encode_enum(obj)
      [] obj.t = "component" -> encode_component(obj)
      [] obj.t = "inst" -> encode_dataclass(obj, 1, <<>>)
      [] obj.t = "none" -> Ok(None, <<>>)
      [] OTHER -> Fail(Err("ParsingError", "No parser for object"), <<>>)

(***************************************************************************)
(* The type registry and the factory of decoding functions (decoding.py).  *)
(* A decoding function is a closure: a record naming the function and      *)
(* holding the values it closed over.                                      *)
(***************************************************************************)
RegistryFunc(func, include_subclasses) ==
    [func |-> func, include_subclasses |-> include_subclasses]

\* the registrations made when decoding.py is imported
type_decoders == [ty \in {TStr, TFloat, TInt, TBool} |-> RegistryFunc([fn |-> ty.k], FALSE)]

\* an exact match, or the nearest registered ancestor: of the model's types
\* only an enumeration that derives from a scalar type has one
dispatch(registry, ty) ==
    IF ty \in DOMAIN registry THEN registry[ty]
    ELSE IF ty.k = "enum" /\ EnumBase(ty.name) \in DOMAIN registry
    THEN registry[EnumBase(ty.name)]
    ELSE None

no_op == [fn |-> "no_op"]

RECURSIVE get_decoding_fn(_), get_decoding_fns(_), decoding_fns_of(_, _)

\* [get_decoding_fn(t) for t in types]
get_decoding_fns(types) ==
    IF types = <<>> THEN Ok(<<>>, <<>>)
    ELSE Then(get_decoding_fn(Head(types)), LAMBDA h :
         Then(get_decoding_fns(Tail(types)), LAMBDA r : Ok(<<h>> \o r, <<>>)))

\* an optional that hands null to the member decoder like any other value
decode_optional_eager(t) == get_decoding_fn(t)

decode_optional(t) ==
    Then(get_decoding_fn(t), LAMBDA decode_ :
         Ok([fn |-> "_decode_optional", decode |-> decode_], <<>>))

try_functions(funcs) == [fn |-> "_try_functions", funcs |-> funcs]

\* [decode_optional(t) if optional else get_decoding_fn(t) for t in types]
decoding_fns_of(types, optional) ==
    IF types = <<>> THEN Ok(<<>>, <<>>)
    ELSE Then(IF optional THEN decode_optional(Head(types))
              ELSE get_decoding_fn(Head(types)), LAMBDA h :
         Then(decoding_fns_of(Tail(types), optional), LAMBDA r : Ok(<<h>> \o r, <<>>)))

decode_union(types) ==
    Then(decoding_fns_of(SelectSeq(types, LAMBDA t : t # TNone),
                         \E i \in 1..Len(types) : types[i] = TNone),
         LAMBDA decoding_fns : Ok(try_functions(decoding_fns), <<>>))

decode_list(t) ==
    Then(get_decoding_fn(t), LAMBDA decode_item :
         Ok([fn |-> "_decode_list", decode_item |-> decode_item], <<>>))

\* tuple_item_types.index(Ellipsis), counted from 1
EllipsisIndex(tuple_item_types) ==
    CHOOSE i \in 1..Len(tuple_item_types) :
        /\ tuple_item_types[i] = Ellipsis
        /\ \A j \in 1..(i - 1) : tuple_item_types[j] # Ellipsis

\* a tuple decoder that takes every tuple type for a variadic one
decode_tuple_variadic(tuple_item_types) ==
    Then(get_decoding_fn(tuple_item_types[1]), LAMBDA decoding_fn :
         Ok([fn |-> "_decode_tuple", has_ellipsis |-> TRUE,
             decoding_fn |-> decoding_fn], <<>>))

decode_tuple(tuple_item_types) ==
    IF \E i \in 1..Len(tuple_item_types) : tuple_item_types[i] = Ellipsis
    THEN \* index -1 of a Python tuple is its last item
         Then(get_decoding_fn(tuple_item_types[
                  IF EllipsisIndex(tuple_item_types) = 1 THEN Len(tuple_item_types)
                  ELSE EllipsisIndex(tuple_item_types) - 1]),
              LAMBDA decoding_fn :
                  Ok([fn |-> "_decode_tuple", has_ellipsis |-> TRUE,
                      decoding_fn |-> decoding_fn], <<>>))
    ELSE IF Len(tuple_item_types) = 0
    THEN Ok([fn |-> "_decode_tuple", has_ellipsis |-> TRUE, decoding_fn |-> no_op], <<>>)
    ELSE Then(get_decoding_fns(tuple_item_types), LAMBDA decoding_fns :
              Ok([fn |-> "_decode_tuple", has_ellipsis |-> FALSE,
                  decoding_fns |-> decoding_fns], <<>>))

decode_dict(K_, V_) ==
    Then(get_decoding_fn(K_), LAMBDA decode_k :
    Then(get_decoding_fn(V_), LAMBDA decode_v :
         Ok([fn |-> "_decode_dict", decode_k |-> decode_k, decode_v |-> decode_v], <<>>)))

get_decoding_fn(ty) ==
    Bind(dispatch(type_decoders, ty), LAMBDA registered_func :
    IF registered_func # None THEN
        IF registered_func.include_subclasses
        THEN Ok([fn |-> "partial", func |-> registered_func.func, cls |-> ty], <<>>)
        ELSE Ok(registered_func.func, <<>>)
    ELSE CASE ty.k = "dataclass" -> Ok([fn |-> "decode_dataclass", cls |-> ty.name], <<>>)
           [] ty.k = "any" -> Ok(no_op, <<>>)
           [] ty.k = "dict" -> decode_dict(ty.args[1], ty.args[2])
           [] ty.k = "tuple" -> decode_tuple(ty.args)
           [] ty.k = "list" -> decode_list(ty.args[1])
           [] ty.k = "union" -> decode_union(ty.args)
           [] ty.k = "enum" -> Ok([fn |-> "enum_getitem", cls |-> ty.name], <<>>)
           [] OTHER -> Fail(Err("ParsingError", "No decoding function for type"), <<>>))

(***************************************************************************)
(* Calling a decoding function on a raw value.                             *)
(***************************************************************************)
\* the characters of the strings of more than one character in the model
MultiChar == ("bob" :> <<"b", "o", "b">>) @@ ("1.5" :> <<"1", ".", "5">>)
             @@ ("a.b" :> <<"a", ".", "b">>)
Chars(s) == IF s \in DOMAIN MultiChar THEN MultiChar[s]
            ELSE IF s = "" THEN <<>> ELSE <<s>>

Iterable(val) == val.t \in {"list", "tuple", "str", "map"}
RECURSIVE KeySeq(_)
KeySeq(ks) == IF ks = {} THEN <<>>
              ELSE Bind(PickKey(ks), LAMBDA k : <<S(k)>> \o KeySeq(ks \ {k}))
\* the items a Python iteration over val yields
Iter(val) == CASE val.t \in {"list", "tuple"} -> val.v
               [] val.t = "str" -> [i \in 1..Len(Chars(val.v)) |-> S(Chars(val.v)[i])]
               [] val.t = "map" -> KeySeq(DOMAIN val.v)

\* what the log records: a warning of the logger, the call of the i-th function
\* of a union, the call of the member decoder of an optional
WarnMissing(c, name) == [ev |-> "warning", cls |-> c, field |-> name]
Tried(i) == [ev |-> "try", idx |-> i]
RanMember == [ev |-> "member_decoder"]

\* name in obj_dict
Has(obj_dict, name) ==
    IF obj_dict.t = "map" THEN name \in DOMAIN obj_dict.v
    ELSE \E i \in 1..Len(obj_dict.v) : obj_dict.v[i] = S(name)

RECURSIVE call(_, _), call_each(_, _), call_zip(_, _), _try_functions(_, _, _),
          _decode_dict(_, _, _), decode_dataclass(_, _), decode_fields(_, _, _),
          decode_choice_field(_, _)

decode(ty, raw_value) == Then(get_decoding_fn(ty), LAMBDA fn : call(fn, raw_value))

\* [fn(v) for v in vals]
call_each(fn, vals) ==
    IF vals = <<>> THEN Ok(<<>>, <<>>)
    ELSE Then(call(fn, Head(vals)), LAMBDA h :
         Then(call_each(fn, Tail(vals)), LAMBDA r : Ok(<<h>> \o r, <<>>)))

\* [fns[i](v) for i, v in enumerate(vals)]
call_zip(fns, vals) ==
    IF vals = <<>> THEN Ok(<<>>, <<>>)
    ELSE Then(call(Head(fns), Head(vals)), LAMBDA h :
         Then(call_zip(Tail(fns), Tail(vals)), LAMBDA r : Ok(<<h>> \o r, <<>>)))

\* the loop as the docstring of try_functions has it: "else returns the same
\* value unchanged"
RECURSIVE _try_functions_lenient(_, _, _)
_try_functions_lenient(funcs, i, val) ==
    IF i > Len(funcs) THEN Ok(val, <<>>)
    ELSE Bind(call(funcs[i], val), LAMBDA r :
         IF r.ok THEN After(<<Tried(i)>>, r)
         ELSE After(<<Tried(i)>> \o r.log, _try_functions_lenient(funcs, i + 1, val)))

\* the loop of _try_functions from function i on
_try_functions(funcs, i, val) ==
    IF i > Len(funcs)
    THEN Fail(Err("ParsingError", "No valid parsing for value"), <<>>)
    ELSE Bind(call(funcs[i], val), LAMBDA r :
         IF r.ok THEN After(<<Tried(i)>>, r)
         ELSE After(<<Tried(i)>> \o r.log, _try_functions(funcs, i + 1, val)))

\* the loop of _decode_dict over the keys of val not yet in result
_decode_dict(h, val, result) ==
    IF DOMAIN val.v \ DOMAIN result = {} THEN Ok(M(result), <<>>)
    ELSE Bind(PickKey(DOMAIN val.v \ DOMAIN result), LAMBDA k :
         Then(call(h.decode_k, S(k)), LAMBDA k_ :
         Then(call(h.decode_v, val.v[k]), LAMBDA v_ :
              _decode_dict(h, val, Put(result, k_.v, v_)))))

call(h, val) ==
    CASE h.fn = "int" -> py_int(val)
      [] h.fn = "float" -> py_float(val)
      [] h.fn = "str" -> py_str(val)
      [] h.fn = "bool" -> py_bool(val)
      [] h.fn = "no_op" -> Ok(val, <<>>)
      [] h.fn = "decode_dataclass" -> decode_dataclass(h.cls, val)
      [] h.fn = "_decode_optional" ->
            IF val = None THEN Ok(val, <<>>)
            ELSE After(<<RanMember>>, call(h.decode, val))
      [] h.fn = "_try_functions" -> _try_functions(h.funcs, 1, val)
      [] h.fn = "_decode_list" ->
            IF val.t # "list"
            THEN Fail(Err("ParsingError", "The given value is not of a valid input"), <<>>)
            ELSE Then(call_each(h.decode_item, val.v), LAMBDA r : Ok(L(r), <<>>))
      [] h.fn = "_decode_tuple" ->
            IF val = None
            THEN Fail(Err("TypeError", "Value must not be None for conversion to a tuple"), <<>>)
            ELSE IF ~Iterable(val)
            THEN Fail(Err("TypeError", "object is not iterable or has no len()"), <<>>)
            ELSE IF h.has_ellipsis
            THEN Then(call_each(h.decoding_fn, Iter(val)), LAMBDA r : Ok(Tu(r), <<>>))
            ELSE IF Len(h.decoding_fns) # Len(Iter(val))
            THEN Fail(Err("ParsingError", "Trying to decode values for a predefined Tuple"), <<>>)
            ELSE Then(call_zip(h.decoding_fns, Iter(val)), LAMBDA r : Ok(Tu(r), <<>>))
      [] h.fn = "_decode_dict" ->
            IF val.t = "map" THEN _decode_dict(h, val, <<>>)
            ELSE IF val.t = "list" /\ val.v = <<>> THEN Ok(EmptyMap, <<>>)
            ELSE IF val.t = "list"
            THEN \* no item of a list of the model unpacks into a (key, value) pair
                 IF Iterable(Head(val.v))
                 THEN Fail(Err("ValueError", "wrong number of values to unpack"), <<>>)
                 ELSE Fail(Err("TypeError", "cannot unpack non-iterable object"), <<>>)
            ELSE Fail(Err("AttributeError", "object has no attribute items"), <<>>)
      [] h.fn = "enum_getitem" ->
            IF val.t = "str" /\ val.v \in EnumMembers(h.cls) THEN Ok(En(h.cls, val.v), <<>>)
            ELSE IF val.t \in {"list", "map"} THEN Fail(Err("TypeError", "unhashable type"), <<>>)
            ELSE Fail(Err("KeyError", "no such member"), <<>>)

(***************************************************************************)
(* Record structural decode and choice fields.                             *)
(***************************************************************************)
HasDefault(field) == field.default # MISSING \/ field.default_factory # MISSING
DefaultOf(field) == IF field.default # MISSING THEN field.default ELSE field.default_factory

\* the fields of class c that cls(**init_args) sets
InitSet(c, init_args) ==
    {n \in FieldNames(c) : (FieldOf(c, n).init /\ n \in DOMAIN init_args)
                              \/ HasDefault(FieldOf(c, n))}

\* an __init__ that leaves a missing argument unset
new_instance_lenient(c, init_args) ==
    Ok(Inst(c, [n \in InitSet(c, init_args) |->
                  IF n \in DOMAIN init_args THEN init_args[n]
                  ELSE DefaultOf(FieldOf(c, n))]), <<>>)

\* cls(**init_args): the __init__ that @dataclass generates
new_instance(c, init_args) ==
    IF \E n \in FieldNames(c) :
          FieldOf(c, n).init /\ ~HasDefault(FieldOf(c, n)) /\ n \notin DOMAIN init_args
    THEN Fail(Err("TypeError", "__init__() missing required positional argument"), <<>>)
    ELSE Ok(Inst(c, [n \in InitSet(c, init_args) |->
                       IF n \in DOMAIN init_args THEN init_args[n]
                       ELSE DefaultOf(FieldOf(c, n))]), <<>>)

\* setattr(instance, name, value) for every non-init argument
set_attrs(instance, non_init_args) ==
    Inst(instance.cls, [n \in DOMAIN instance.v \cup DOMAIN non_init_args |->
                          IF n \in DOMAIN non_init_args THEN non_init_args[n]
                          ELSE instance.v[n]])

decode_field(field, raw_value) == decode(field.type, raw_value)

\* a frame that lets the exception through as it came
FieldErrorRaw(c, field, e) == e

\* the ParsingError that decode_dataclass raises in place of another exception
FieldError(c, field, e) ==
    [kind |-> "ParsingError", why |-> "Failed when parsing value into field",
     cls |-> c, field |-> field.name, type |-> field.type, cause |-> e]

\* obj_dict.pop(name) and init_args[name] = field_value, or non_init_args
Store(st, field, field_value) ==
    IF field.init
    THEN [st EXCEPT !.obj_dict.v = Drop(@, field.name),
                    !.init_args = Put(@, field.name, field_value)]
    ELSE [st EXCEPT !.obj_dict.v = Drop(@, field.name),
                    !.non_init_args = Put(@, field.name, field_value)]

\* a choice field that falls back on its own default when its key is absent
decode_choice_defaulted(field, obj_dict) ==
    IF ~Has(obj_dict, field.name) /\ HasDefault(field)
    THEN Ok(DefaultOf(field), <<>>)
    ELSE decode_choice_field(field,
             IF Has(obj_dict, field.name) THEN obj_dict.v[field.name] ELSE EmptyMap)

\* raw_value = obj_dict.pop(name, {}); decode_choice_field(field, raw_value)
decode_choice(field, obj_dict) ==
    decode_choice_field(field,
        IF Has(obj_dict, field.name) THEN obj_dict.v[field.name] ELSE EmptyMap)

\* the loop of decode_dataclass over fields i.. ; st holds obj_dict, init_args
\* and non_init_args
decode_fields(c, i, st) ==
    IF i > Len(fields(c)) THEN Ok(st, <<>>)
    ELSE Bind(fields(c)[i], LAMBDA field :
    IF field.metadata # MISSING THEN
        IF st.obj_dict.t = "list"
        THEN Fail(Err("TypeError", "pop expected at most 1 argument"), <<>>)
        ELSE Then(decode_choice(field, st.obj_dict),
                  LAMBDA field_value : decode_fields(c, i + 1, Store(st, field, field_value)))
    ELSE IF ~Has(st.obj_dict, field.name) THEN
        After(IF ~HasDefault(field) THEN <<WarnMissing(c, field.name)>> ELSE <<>>,
              decode_fields(c, i + 1, st))
    ELSE IF st.obj_dict.t = "list"
    THEN Fail(Err("TypeError", "object cannot be interpreted as an integer"), <<>>)
    ELSE Bind(decode_field(field, st.obj_dict.v[field.name]), LAMBDA r :
         IF ~r.ok /\ r.err.kind # "ParsingError"
         THEN Fail(FieldError(c, field, r.err), r.log)
         ELSE Then(r, LAMBDA field_value :
                   decode_fields(c, i + 1, Store(st, field, field_value)))))

\* a lenient decode: leftover keys are let through
ExtraArgsIgnored(c, st) == Ok(st, <<>>)

\* if extra_args: raise, once every field has taken its own key
ExtraArgs(c, st) ==
    IF Truthy(st.obj_dict)
    THEN Fail(Err("Exception", "The fields do not belong to the class"), <<>>)
    ELSE Ok(st, <<>>)

\* the constructor call with its TypeError left as it is
InstantiateRaw(c, init_args) == new_instance(c, init_args)

\* the constructor call and what decode_dataclass makes of its TypeError
Instantiate(c, init_args) ==
    Bind(new_instance(c, init_args), LAMBDA instance :
         IF ~instance.ok
         THEN Fail([kind |-> "ParsingError", why |-> "Couldn't instantiate class",
                    cls |-> c, cause |-> instance.err], <<>>)
         ELSE instance)

decode_dataclass(c, d) ==
    IF d.t \notin {"map", "list"}
    THEN Fail(Err("AttributeError", "object has no attribute copy"), <<>>)
    ELSE Then(decode_fields(c, 1, [obj_dict |-> d, init_args |-> <<>>,
                                   non_init_args |-> <<>>]), LAMBDA st :
         Then(ExtraArgs(c, st), LAMBDA checked :
         Then(Instantiate(c, st.init_args), LAMBDA instance :
              Ok(set_attrs(instance, st.non_init_args), <<>>))))

is_component_type(ty) == ty.k = "component"
is_dataclass_type(ty) == ty.k = "dataclass"

get_component_type_dataclass(ty) == ty.args[1]

get_component_dataclass(choice) ==
    IF choice.kind = "dataclass" THEN Ok(choice.name, <<>>)
    ELSE IF choice.param = MISSING
    THEN Fail(Err("ParsingError", "Choice function does not take any arguments"), <<>>)
    ELSE IF ~is_dataclass_type(choice.param)
    THEN Fail(Err("ParsingError", "first argument's type is not a dataclass"), <<>>)
    ELSE Ok(choice.param.name, <<>>)

\* a build that hands back the configuration alone
build_component_bare(config, value) == config

build_component(config, value) == Component(config, value)

\* ChoiceProvider.get_choice_names: the names the provider knows
get_choice_names(choices) == DOMAIN choices

\* a lookup that settles on some known choice when the name is unknown
get_value_lenient(choices, choice_name) ==
    IF choice_name.t # "str" \/ choice_name.v \notin DOMAIN choices
    THEN choices[CHOOSE n \in DOMAIN choices : TRUE]
    ELSE choices[choice_name.v]

\* ChoiceProvider.get_value over the provider's name -> choice map
get_value(choices, choice_name) ==
    IF choice_name.t # "str" \/ choice_name.v \notin DOMAIN choices THEN None
    ELSE choices[choice_name.v]

\* a search that reads f.default alone
KeyFieldDefaultValue(targ_cls, key_field) ==
    IF key_field \in FieldNames(targ_cls) /\ FieldOf(targ_cls, key_field).default # MISSING
    THEN FieldOf(targ_cls, key_field).default
    ELSE None

\* the default of the key field in the declared target class, None if there is none
KeyFieldDefault(targ_cls, key_field) ==
    IF key_field \in FieldNames(targ_cls) /\ HasDefault(FieldOf(targ_cls, key_field))
    THEN DefaultOf(FieldOf(targ_cls, key_field))
    ELSE None

\* a resolution that, with outer set, does not take the name from the field's
\* own map
ChoiceName_outer(field, targ_dict) ==
    Bind(field.metadata, LAMBDA meta :
    IF meta.outer \/ meta.key_field \notin DOMAIN targ_dict.v
    THEN Bind(IF is_component_type(field.type)
              THEN get_component_type_dataclass(field.type) ELSE field.type,
              LAMBDA targ_cls :
         IF ~is_dataclass_type(targ_cls)
         THEN Fail(Err("ParsingError", "The choice field type is not a dataclass."), <<>>)
         ELSE IF KeyFieldDefault(targ_cls.name, meta.key_field) = None
         THEN Fail(Err("ParsingError",
                       "cannot find key field for determining which choice to use"), <<>>)
         ELSE Ok(KeyFieldDefault(targ_cls.name, meta.key_field), <<>>))
    ELSE IF targ_dict.v[meta.key_field].t # "str"
    THEN Fail(Err("ParsingError", "Choice field has key field that is not a string"), <<>>)
    ELSE Ok(targ_dict.v[meta.key_field], <<>>))

\* the choice name decode_choice_field settles on, or the error it raises
ChoiceName(field, targ_dict) ==
    Bind(field.metadata, LAMBDA meta :
    IF meta.key_field \notin DOMAIN targ_dict.v
    THEN Bind(IF is_component_type(field.type)
              THEN get_component_type_dataclass(field.type) ELSE field.type,
              LAMBDA targ_cls :
         IF ~is_dataclass_type(targ_cls)
         THEN Fail(Err("ParsingError", "The choice field type is not a dataclass."), <<>>)
         ELSE IF KeyFieldDefault(targ_cls.name, meta.key_field) = None
         THEN Fail(Err("ParsingError",
                       "cannot find key field for determining which choice to use"), <<>>)
         ELSE Ok(KeyFieldDefault(targ_cls.name, meta.key_field), <<>>))
    ELSE IF targ_dict.v[meta.key_field].t # "str"
    THEN Fail(Err("ParsingError", "Choice field has key field that is not a string"), <<>>)
    ELSE Ok(targ_dict.v[meta.key_field], <<>>))

\* a choice decode that takes the key out of the map before the variant reads it
decode_choice_field_popped(field, raw_value) ==
    IF raw_value.t # "map"
    THEN Fail(Err("ParsingError", "Choice field only works for dataclasses, expected dict"), <<>>)
    ELSE Then(ChoiceName(field, raw_value), LAMBDA choice_name :
         Bind(get_value(field.metadata.choices, choice_name), LAMBDA choice :
         IF choice = None
         THEN Fail([kind |-> "ParsingError", why |-> "Invalid choice. Valid choices are",
                    names |-> get_choice_names(field.metadata.choices)], <<>>)
         ELSE Then(get_component_dataclass(choice), LAMBDA cls_ :
              Then(decode_dataclass(cls_, M(Drop(raw_value.v, field.metadata.key_field))),
                   LAMBDA conf :
                   IF is_component_type(field.type)
                   THEN Ok(build_component(conf, choice), <<>>)
                   ELSE IF is_dataclass_type(field.type) THEN Ok(conf, <<>>)
                   ELSE Fail(Err("ParsingError", ""), <<>>)))))

decode_choice_field(field, raw_value) ==
    IF raw_value.t # "map"
    THEN Fail(Err("ParsingError", "Choice field only works for dataclasses, expected dict"), <<>>)
    ELSE Then(ChoiceName(field, raw_value), LAMBDA choice_name :
         Bind(get_value(field.metadata.choices, choice_name), LAMBDA choice :
         IF choice = None
         THEN Fail([kind |-> "ParsingError", why |-> "Invalid choice. Valid choices are",
                    names |-> get_choice_names(field.metadata.choices)], <<>>)
         ELSE Then(get_component_dataclass(choice), LAMBDA cls_ :
              Then(decode_dataclass(cls_, raw_value), LAMBDA conf :
                   IF is_component_type(field.type)
                   THEN Ok(build_component(conf, choice), <<>>)
                   ELSE IF is_dataclass_type(field.type) THEN Ok(conf, <<>>)
                   ELSE Fail(Err("ParsingError", ""), <<>>)))))

\* the functions a and b that the component test offers as choices, called
\* with the positional arguments args
call_function(func, args) ==
    IF Len(args) # 1
    THEN Fail(Err("TypeError", "takes 1 positional argument"), <<>>)
    ELSE IF func.name = "a" THEN py_str(args[1].v.a)
    ELSE py_str(I(Cardinality(DOMAIN args[1].v.b.v)))

\* Component.__call__: self.func(self.config, *args)
Component__call__(self, args) == call_function(self.func, <<self.config>> \o args)

(***************************************************************************)
(* The discovery provider (choice.py, Plugin).  A namespace is the sequence *)
(* of its sub-modules in the order pkgutil.iter_modules yields them; a      *)
(* module is [name, kind, items]: kind "none" when it lacks the attribute,  *)
(* "plain" when the attribute is a single object, "list" when it is a       *)
(* list, dict or provider, whose names are items.                           *)
(***************************************************************************)
Module(name, kind, items) == [name |-> name, kind |-> kind, items |-> items]

\* the object a module registers under a name
Registered(mod, k) == [module |-> mod.name, name |-> k]

RECURSIVE merge_items(_, _, _), discover(_, _, _)

\* for k, v in parse_choices(val).get_choices().items(), from item i on
merge_items(mod, i, choices) ==
    IF i > Len(mod.items) THEN Ok(choices, <<>>)
    ELSE IF mod.items[i] \in DOMAIN choices
    THEN Fail([kind |-> "ParsingError",
               why |-> "Duplicate choices registered in plugin provider",
               name |-> mod.items[i]], <<>>)
    ELSE merge_items(mod, i + 1, Put(choices, mod.items[i], Registered(mod, mod.items[i])))

\* for mod_info in pkgutil.iter_modules(...), from module i on
discover(mods, i, choices) ==
    IF i > Len(mods) THEN Ok(choices, <<>>)
    ELSE IF mods[i].kind = "none" THEN discover(mods, i + 1, choices)
    ELSE IF mods[i].kind = "list"
    THEN Then(merge_items(mods[i], 1, choices), LAMBDA c : discover(mods, i + 1, c))
    ELSE discover(mods, i + 1, Put(choices, mods[i].name, Registered(mods[i], mods[i].name)))

\* the body of Plugin.get_choices over the namespace mods
Plugin_get_choices(mods) == discover(mods, 1, <<>>)

(***************************************************************************)
(* Pytree utilities (utils.py) and the dotlist format (formats.py).        *)
(***************************************************************************)
\* pytree_merge mutates dest in place; the result is dest after the call
RECURSIVE pytree_merge(_, _), merge_keys(_, _, _)

\* the loop of pytree_merge over the keys ks of src still to visit
merge_keys(dest, src, ks) ==
    IF ks = {} THEN Ok(dest, <<>>)
    ELSE IF dest.t \notin {"map", "list", "str"}
    THEN Fail(Err("TypeError", "argument is not iterable"), <<>>)
    ELSE IF dest.t # "map"
    THEN Fail(Err("TypeError", "object does not support item assignment"), <<>>)
    ELSE Bind(PickKey(ks), LAMBDA src_k :
         IF src_k \in DOMAIN dest.v /\ src.v[src_k].t = "map" /\ dest.v[src_k].t = "map"
         THEN Then(pytree_merge(dest.v[src_k], src.v[src_k]), LAMBDA sub :
                   merge_keys(M(Put(dest.v, src_k, sub)), src, ks \ {src_k}))
         ELSE merge_keys(M(Put(dest.v, src_k, src.v[src_k])), src, ks \ {src_k}))

\* dest.update(src): a merge that does not descend into nested maps
pytree_merge_shallow(dest, src) ==
    IF src.t # "map" THEN Fail(Err("AttributeError", "object has no attribute items"), <<>>)
    ELSE IF dest.t # "map"
    THEN Fail(Err("TypeError", "object does not support item assignment"), <<>>)
    ELSE Ok(M([k \in DOMAIN dest.v \cup DOMAIN src.v |->
                 IF k \in DOMAIN src.v THEN src.v[k] ELSE dest.v[k]]), <<>>)

pytree_merge(dest, src) ==
    IF src.t # "map" THEN Fail(Err("AttributeError", "object has no attribute items"), <<>>)
    ELSE merge_keys(dest, src, DOMAIN src.v)

RECURSIVE Join(_)
Join(cs) == IF cs = <<>> THEN "" ELSE Head(cs) \o Join(Tail(cs))

\* str.find: the index of the first occurrence of ch (from 0), -1 if none
RECURSIVE find(_, _)
find(cs, ch) == IF cs = <<>> THEN -1
                ELSE IF Head(cs) = ch THEN 0
                ELSE Bind(find(Tail(cs), ch), LAMBDA r : IF r = -1 THEN -1 ELSE r + 1)

\* str.split(sep) of a sequence of characters, the parts as strings
RECURSIVE split(_, _)
split(cs, sep) ==
    Bind(find(cs, sep), LAMBDA idx :
    IF idx = -1 THEN <<Join(cs)>>
    ELSE <<Join(SubSeq(cs, 1, idx))>> \o split(SubSeq(cs, idx + 2, Len(cs)), sep))

\* the assignments of deflatten for one key: walk key_parts from curr_d,
\* creating maps, and set the last part to value
RECURSIVE set_path(_, _, _)
set_path(curr_d, key_parts, value) ==
    IF Len(key_parts) = 1
    THEN IF curr_d.t = "map" THEN Ok(M(Put(curr_d.v, key_parts[1], value)), <<>>)
         ELSE Fail(Err("TypeError", "object does not support item assignment"), <<>>)
    ELSE IF curr_d.t \notin {"map", "list", "str"}
    THEN Fail(Err("TypeError", "argument is not iterable"), <<>>)
    ELSE IF curr_d.t # "map"
    THEN Fail(Err("TypeError", "object does not support item assignment"), <<>>)
    ELSE Then(set_path(IF Head(key_parts) \in DOMAIN curr_d.v
                       THEN curr_d.v[Head(key_parts)] ELSE EmptyMap,
                       Tail(key_parts), value),
              LAMBDA next_d : Ok(M(Put(curr_d.v, Head(key_parts), next_d)), <<>>))

\* d is a dict in insertion order: a sequence of [key, value] with distinct keys
RECURSIVE deflatten_from(_, _, _)
deflatten_from(d, i, deflat_d) ==
    IF i > Len(d) THEN Ok(deflat_d, <<>>)
    ELSE Then(set_path(deflat_d, split(d[i].key, "."), d[i].value), LAMBDA next_d :
              deflatten_from(d, i + 1, next_d))

deflatten(d) == deflatten_from(d, 1, EmptyMap)

\* kv[key] = value on a dict in insertion order
SetItem(kv, key, value) ==
    IF \E i \in 1..Len(kv) : kv[i].key = key
    THEN [i \in 1..Len(kv) |-> IF kv[i].key = key THEN [key |-> key, value |-> value]
                               ELSE kv[i]]
    ELSE Append(kv, [key |-> key, value |-> value])

\* dict(items): a later item replaces the value of an equal earlier key
RECURSIVE dict(_)
dict(items) == IF items = <<>> THEN <<>>
               ELSE SetItem(dict(SubSeq(items, 1, Len(items) - 1)),
                            items[Len(items)].key, items[Len(items)].value)

\* the items list of flatten after the loop over the keys ks of d; a key is
\* held as its characters, and parent_key, which the code only tests for
\* truth, is <<>> for both None and ""
RECURSIVE flatten_items(_, _, _)
flatten_items(d, parent_key, ks) ==
    IF ks = <<>> THEN <<>>
    ELSE Bind(IF parent_key # <<>> THEN parent_key \o <<".">> \o Chars(Head(ks).v)
              ELSE Chars(Head(ks).v), LAMBDA new_key :
         (IF d.v[Head(ks).v].t = "map"
          THEN dict(flatten_items(d.v[Head(ks).v], new_key,
                                  KeySeq(DOMAIN d.v[Head(ks).v].v)))
          ELSE <<[key |-> new_key, value |-> d.v[Head(ks).v]]>>)
         \o flatten_items(d, parent_key, Tail(ks)))

\* the top-level items alone, no map entered
flatten_shallow(d) ==
    dict([i \in 1..Len(KeySeq(DOMAIN d.v)) |->
            [key |-> Chars(KeySeq(DOMAIN d.v)[i].v), value |-> d.v[KeySeq(DOMAIN d.v)[i].v]]])

\* flatten(d), a dict in insertion order
flatten(d) == dict(flatten_items(d, <<>>, KeySeq(DOMAIN d.v)))

IsDigit(ch) == \E i \in 1..10 : Digits[i] = ch
DigitVal(ch) == (CHOOSE i \in 1..10 : Digits[i] = ch) - 1
AllDigits(cs) == cs # <<>> /\ \A i \in 1..Len(cs) : IsDigit(cs[i])
RECURSIVE NumVal(_)
NumVal(cs) == IF cs = <<>> THEN 0
              ELSE 10 * NumVal(SubSeq(cs, 1, Len(cs) - 1)) + DigitVal(cs[Len(cs)])

\* yaml.safe_load of a plain scalar
yaml_scalar(cs) ==
    IF AllDigits(cs) THEN I(NumVal(cs))
    ELSE IF /\ find(cs, ".") = Len(cs) - 2
            /\ AllDigits(SubSeq(cs, 1, Len(cs) - 2)) /\ IsDigit(cs[Len(cs)])
    THEN F(10 * NumVal(SubSeq(cs, 1, Len(cs) - 2)) + DigitVal(cs[Len(cs)]))
    ELSE IF cs \in {<<"n", "u", "l", "l">>, <<"~">>} THEN None
    ELSE IF cs = <<"t", "r", "u", "e">> THEN B(TRUE)
    ELSE IF cs = <<"f", "a", "l", "s", "e">> THEN B(FALSE)
    ELSE S(Join(cs))

RECURSIVE yaml_items(_)
yaml_items(cs) ==
    Bind(find(cs, ","), LAMBDA idx :
    IF idx = -1 THEN <<yaml_scalar(cs)>>
    ELSE <<yaml_scalar(SubSeq(cs, 1, idx))>> \o yaml_items(SubSeq(cs, idx + 2, Len(cs))))

Special(ch) == ch \in {"[", "]", "{", "}", ","}

\* encode_yaml of the text cs: the empty text is {}, "{}" and "[..]" are the flow
\* collections, anything else a plain scalar
encode_yaml(cs) ==
    IF cs = <<>> THEN Ok(EmptyMap, <<>>)
    ELSE IF cs = <<"{", "}">> THEN Ok(EmptyMap, <<>>)
    ELSE IF cs = <<"[", "]">> THEN Ok(L(<<>>), <<>>)
    ELSE IF /\ Len(cs) > 2 /\ cs[1] = "[" /\ cs[Len(cs)] = "]"
            /\ \A i \in 2..(Len(cs) - 1) : cs[i] = "," \/ ~Special(cs[i])
            /\ cs[2] # "," /\ cs[Len(cs) - 1] # ","
            /\ \A i \in 2..(Len(cs) - 2) : ~(cs[i] = "," /\ cs[i + 1] = ",")
    THEN Ok(L(yaml_items(SubSeq(cs, 2, Len(cs) - 1))), <<>>)
    ELSE IF \E i \in 1..Len(cs) : Special(cs[i])
    THEN Fail(Err("YAMLError", "while parsing a flow node"), <<>>)
    ELSE Ok(yaml_scalar(cs), <<>>)

\* a loop that passes over a token it cannot split
RECURSIVE encode_dotlist_skipping(_, _, _)
encode_dotlist_skipping(dotlist, i, kv) ==
    IF i > Len(dotlist) THEN deflatten(kv)
    ELSE Bind(find(dotlist[i], "="), LAMBDA idx :
         IF idx = -1 \/ idx = Len(dotlist[i]) - 1 \/ idx = 0
         THEN encode_dotlist_skipping(dotlist, i + 1, kv)
         ELSE Then(encode_yaml(SubSeq(dotlist[i], idx + 2, Len(dotlist[i]))), LAMBDA value :
                   encode_dotlist_skipping(dotlist, i + 1,
                                           SetItem(kv, SubSeq(dotlist[i], 1, idx), value))))

\* the loop of encode_dotlist from argument i on
RECURSIVE encode_dotlist_from(_, _, _)
encode_dotlist_from(dotlist, i, kv) ==
    IF i > Len(dotlist) THEN deflatten(kv)
    ELSE Bind(find(dotlist[i], "="), LAMBDA idx :
         IF idx = -1 THEN Fail(Err("ValueError", "dotlist argument invalid: no key."), <<>>)
         ELSE IF idx = Len(dotlist[i]) - 1
         THEN Fail(Err("ValueError", "dotlist argument invalid: no value given"), <<>>)
         ELSE IF idx = 0
         THEN Fail(Err("ValueError", "dotlist argument invalid: empty key"), <<>>)
         ELSE Then(encode_yaml(SubSeq(dotlist[i], idx + 2, Len(dotlist[i]))), LAMBDA value :
                   encode_dotlist_from(dotlist, i + 1,
                                       SetItem(kv, SubSeq(dotlist[i], 1, idx), value))))

encode_dotlist(dotlist) == encode_dotlist_from(dotlist, 1, <<>>)

(***************************************************************************)
(* The classes the registry is asked about.  object, abc.ABC and the       *)
(* pathlib classes are those of the interpreter; P0, P and Q are abstract   *)
(* base classes, X is registered with P and with Q as a virtual subclass;   *)
(* A and B are plain classes; Optional is a typing form without __mro__.    *)
(* abc.ABC is never registered: the virtual subclasses that the standard    *)
(* library gives it are left out.                                           *)
(***************************************************************************)
Classes == {"object", "ABC", "P0", "P", "Q", "X", "A", "B",
            "PurePath", "Path", "PurePosixPath", "PosixPath",
            "str", "float", "int", "bool", "bytes"}

Forms == {"Optional"}

\* cls.__bases__
__bases__(c) ==
    CASE c = "object" -> <<>>
      [] c = "P" -> <<"P0">>
      [] c \in {"P0", "Q"} -> <<"ABC">>
      [] c = "B" -> <<"A">>
      [] c = "bool" -> <<"int">>
      [] c \in {"Path", "PurePosixPath"} -> <<"PurePath">>
      [] c = "PosixPath" -> <<"Path", "PurePosixPath">>
      [] OTHER -> <<"object">>

\* hasattr(cls, "__abstractmethods__"): the classes ABCMeta created
IsABC(c) == c \in {"ABC", "P0", "P", "Q"}

\* abc._abc_registry: the classes registered with an ABC as virtual subclasses
_abc_registry(c) == IF c \in {"P", "Q"} THEN {"X"} ELSE {}

\* cls.__subclasses__(), in the order the classes were created
ClassOrder == <<"object", "str", "float", "int", "bool", "bytes", "ABC",
                "PurePath", "PurePosixPath", "Path", "PosixPath",
                "P0", "P", "Q", "X", "A", "B">>
InSeq(x, s) == \E i \in 1..Len(s) : s[i] = x
Subclasses == [c \in Classes |-> SelectSeq(ClassOrder, LAMBDA s : InSeq(c, __bases__(s)))]
__subclasses__(c) == Subclasses[c]

hasattr__mro__(ty) == ty \in Classes

RECURSIVE _c3_merge(_)

\* sequences = [s for s in sequences if s]
Purge(sequences) == SelectSeq(sequences, LAMBDA s : s # <<>>)

\* the heads of the sequences that appear in the tail of none, in order
Candidates(sequences) ==
    SelectSeq([i \in 1..Len(sequences) |-> Head(sequences[i])],
              LAMBDA c : \A j \in 1..Len(sequences) : ~InSeq(c, Tail(sequences[j])))

\* del seq[0] for each sequence that starts with the candidate
DropHead(sequences, candidate) ==
    [i \in 1..Len(sequences) |->
        IF Head(sequences[i]) = candidate THEN Tail(sequences[i]) ELSE sequences[i]]

_c3_merge(sequences) ==
    IF Purge(sequences) = <<>> THEN Ok(<<>>, <<>>)
    ELSE IF Candidates(Purge(sequences)) = <<>>
    THEN Fail(Err("RuntimeError", "Inconsistent hierarchy"), <<>>)
    ELSE Then(_c3_merge(DropHead(Purge(sequences), Head(Candidates(Purge(sequences))))),
              LAMBDA result : Ok(<<Head(Candidates(Purge(sequences)))>> \o result, <<>>))

\* the C3 linearization of the interpreter over the explicit bases
RECURSIVE Linearize(_)
Linearize(c) ==
    _c3_merge(<<<<c>>>> \o [i \in 1..Len(__bases__(c)) |-> Linearize(__bases__(c)[i])]
              \o <<__bases__(c)>>).val

\* cls.__mro__, set when the class is created
MROs == [c \in Classes |-> Linearize(c)]
__mro__(c) == MROs[c]

\* ABCMeta.__subclasscheck__ for the abstract classes, type.__subclasscheck__
\* for the others
RECURSIVE SubclassCheck(_, _)
SubclassCheck(c, typ) ==
    \/ InSeq(typ, __mro__(c))
    \/ /\ IsABC(typ)
       /\ \/ \E rcls \in _abc_registry(typ) : SubclassCheck(c, rcls)
          \/ \E i \in 1..Len(__subclasses__(typ)) : SubclassCheck(c, __subclasses__(typ)[i])

\* issubclass(cls, typ)
Superclasses == [c \in Classes |-> {typ \in Classes : SubclassCheck(c, typ)}]
issubclass(c, typ) == typ \in Superclasses[c]

Without(s, rem) == SelectSeq(s, LAMBDA x : ~InSeq(x, rem))

\* the last explicit ABC among the bases: bases up to it are considered first
Boundary(bases) ==
    IF \E i \in 1..Len(bases) : IsABC(bases[i])
    THEN CHOOSE i \in 1..Len(bases) :
            IsABC(bases[i]) /\ \A j \in (i + 1)..Len(bases) : ~IsABC(bases[j])
    ELSE 0

\* the ABCs of abcs whose behaviour cls introduces
AbstractBases(c, abcs) ==
    SelectSeq(abcs, LAMBDA base :
        issubclass(c, base)
        /\ ~\E i \in 1..Len(__bases__(c)) : issubclass(__bases__(c)[i], base))

RECURSIVE _c3_mro(_, _), _c3_mros(_, _)

\* [_c3_mro(base, abcs=abcs) for base in bases]
_c3_mros(bases, abcs) ==
    IF bases = <<>> THEN Ok(<<>>, <<>>)
    ELSE Then(_c3_mro(Head(bases), abcs), LAMBDA h :
         Then(_c3_mros(Tail(bases), abcs), LAMBDA r : Ok(<<h>> \o r, <<>>)))

_c3_mro(c, abcs) ==
    Bind(SubSeq(__bases__(c), 1, Boundary(__bases__(c))), LAMBDA explicit_bases :
    Bind(AbstractBases(c, abcs), LAMBDA abstract_bases :
    Bind(SubSeq(__bases__(c), Boundary(__bases__(c)) + 1, Len(__bases__(c))),
         LAMBDA other_bases :
    Then(_c3_mros(explicit_bases, Without(abcs, abstract_bases)), LAMBDA explicit_c3_mros :
    Then(_c3_mros(abstract_bases, Without(abcs, abstract_bases)), LAMBDA abstract_c3_mros :
    Then(_c3_mros(other_bases, Without(abcs, abstract_bases)), LAMBDA other_c3_mros :
         _c3_merge(<<<<c>>>> \o explicit_c3_mros \o abstract_c3_mros \o other_c3_mros
                   \o <<explicit_bases>> \o <<abstract_bases>> \o <<other_bases>>)))))))

\* is_related of _compose_mro
is_related(c, typ) ==
    /\ ~InSeq(typ, __mro__(c))
    /\ hasattr__mro__(typ)
    /\ issubclass(c, typ)

\* is_strict_base of _compose_mro
is_strict_base(typ, types) ==
    \E i \in 1..Len(types) : typ # types[i] /\ InSeq(typ, __mro__(types[i]))

\* found for one typ: the useful bases of each subclass of typ that cls implements
Found(c, typ, types) ==
    [i \in 1..Len(SelectSeq(__subclasses__(typ),
                            LAMBDA sub : ~InSeq(sub, __mro__(c)) /\ issubclass(c, sub))) |->
        SelectSeq(__mro__(SelectSeq(__subclasses__(typ),
                            LAMBDA sub : ~InSeq(sub, __mro__(c)) /\ issubclass(c, sub))[i]),
                  LAMBDA s : InSeq(s, types))]

\* found.sort(key=len, reverse=True): stable, longest first
RECURSIVE SortByLen(_, _)
SortByLen(found, n) ==
    IF n < 0 THEN <<>>
    ELSE SelectSeq(found, LAMBDA s : Len(s) = n) \o SortByLen(found, n - 1)

\* mro.append(x) for each x of xs that mro lacks
RECURSIVE AppendNew(_, _)
AppendNew(mro, xs) ==
    IF xs = <<>> THEN mro
    ELSE AppendNew(IF InSeq(Head(xs), mro) THEN mro ELSE Append(mro, Head(xs)), Tail(xs))

RECURSIVE Flat(_)
Flat(ss) == IF ss = <<>> THEN <<>> ELSE Head(ss) \o Flat(Tail(ss))

\* the loop of _compose_mro over types[i..]
RECURSIVE StableABCs(_, _, _, _)
StableABCs(c, types, i, mro) ==
    IF i > Len(types) THEN mro
    ELSE IF Found(c, types[i], types) = <<>>
    THEN StableABCs(c, types, i + 1, Append(mro, types[i]))
    ELSE StableABCs(c, types, i + 1,
                    AppendNew(mro, Flat(SortByLen(Found(c, types[i], types), Len(ClassOrder)))))

_compose_mro(c, types) ==
    Bind(SelectSeq(types, LAMBDA n : is_related(c, n)), LAMBDA related :
    Bind(SelectSeq(related, LAMBDA n : ~is_strict_base(n, related)), LAMBDA kept :
         _c3_mro(c, StableABCs(c, kept, 1, <<>>))))

(***************************************************************************)
(* TypeRegistry (type_registry.py).  A registry is the dict of the class,   *)
(* kept as the sequence of its items in insertion order.                    *)
(***************************************************************************)
Keys(registry) == [i \in 1..Len(registry) |-> registry[i].ty]
HasKey(registry, ty) == InSeq(ty, Keys(registry))
Item(registry, ty) == (CHOOSE i \in 1..Len(registry) : registry[i].ty = ty)
\* registry.get(ty)
Get_(registry, ty) == IF HasKey(registry, ty) THEN registry[Item(registry, ty)].fn ELSE None

\* self.registry[ty] = RegistryFunc(func, include_subclasses)
register(registry, ty, func, include_subclasses) ==
    IF HasKey(registry, ty)
    THEN [registry EXCEPT ![Item(registry, ty)].fn = RegistryFunc(func, include_subclasses)]
    ELSE Append(registry, [ty |-> ty, fn |-> RegistryFunc(func, include_subclasses)])

\* the loop of _find_impl over mro[i..]; match is <<>> for None, else <<t>>
RECURSIVE find_match(_, _, _, _, _)
find_match(c, registry, mro, i, match) ==
    IF i > Len(mro) THEN Ok(match, <<>>)
    ELSE IF match # <<>>
    THEN IF /\ HasKey(registry, mro[i])
            /\ ~InSeq(mro[i], __mro__(c))
            /\ ~InSeq(match[1], __mro__(c))
            /\ ~issubclass(match[1], mro[i])
         THEN Fail(Err("RuntimeError", "Ambiguous dispatch"), <<>>)
         ELSE Ok(match, <<>>)
    ELSE find_match(c, registry, mro, i + 1,
                    IF HasKey(registry, mro[i]) THEN <<mro[i]>> ELSE match)

_find_impl(c, registry) ==
    IF ~hasattr__mro__(c) THEN Ok(None, <<>>)
    ELSE Then(_compose_mro(c, Keys(registry)), LAMBDA mro :
         Then(find_match(c, registry, mro, 1, <<>>), LAMBDA match :
              Ok(IF match = <<>> THEN None ELSE Get_(registry, match[1]), <<>>)))

\* TypeRegistry.dispatch
TypeRegistry_dispatch(registry, ty) ==
    IF HasKey(registry, ty) THEN Ok(Get_(registry, ty), <<>>)
    ELSE _find_impl(ty, registry)

\* the registrations made when decoding.py is imported
type_decoders_at_import ==
    [i \in 1..6 |-> [ty |-> <<"str", "float", "int", "bool", "bytes", "Path">>[i],
                     fn |-> RegistryFunc([fn |-> <<"str", "float", "int", "bool",
                                                   "bytes", "Path">>[i]], FALSE)]]

(***************************************************************************)
(* get_decoding_fn over a registry that changes, and its lru_cache.  The    *)
(* declared types are the classes above and dataclass types made up as the  *)
(* program goes, Dataclass(1), Dataclass(2), ...                            *)
(***************************************************************************)
Dataclass(i) == "Dataclass" \o IntToStr(i)
is_dataclass(ty) == ty \notin Classes \cup Forms

\* the body of get_decoding_fn for a class or a dataclass type
get_decoding_fn_in(registry, ty) ==
    Then(TypeRegistry_dispatch(registry, ty), LAMBDA registered_func :
    IF registered_func # None THEN
        IF registered_func.include_subclasses
        THEN Ok([fn |-> "partial", func |-> registered_func.func, cls |-> ty], <<>>)
        ELSE Ok(registered_func.func, <<>>)
    ELSE IF is_dataclass(ty) THEN Ok([fn |-> "decode_dataclass", cls |-> ty], <<>>)
    ELSE Fail(Err("ParsingError", "No decoding function for type"), <<>>))

\* the cache of functools.lru_cache: its links from the least recently used
\* to the most recently used, each [key, result]
maxsize == 128

CacheKeys(cache_) == [i \in 1..Len(cache_) |-> cache_[i].key]
Link(cache_, key) == CHOOSE i \in 1..Len(cache_) : cache_[i].key = key

\* a lookup that finds no link
lru_hit_never(cache_, key) == FALSE

\* the lookup of the wrapper: the key has a link
lru_hit(cache_, key) == InSeq(key, CacheKeys(cache_))

\* a hit moves the link to the most recently used end
lru_touch(cache_, key) ==
    SelectSeq(cache_, LAMBDA l : l.key # key) \o <<cache_[Link(cache_, key)]>>

\* after the call: a key added meanwhile is left alone, a full cache gives
\* up its oldest link, and the result is linked in as the most recent
lru_store(cache_, key, result) ==
    IF InSeq(key, CacheKeys(cache_)) THEN cache_
    ELSE IF Len(cache_) >= maxsize
    THEN Tail(cache_) \o <<[key |-> key, result |-> result]>>
    ELSE cache_ \o <<[key |-> key, result |-> result]>>

(***************************************************************************)
(* The top-level operations (api.py).  The log of a call starts with the   *)
(* steps the call went through; a merge step holds the pytree it left.     *)
(***************************************************************************)
Step(name) == [ev |-> "step", name |-> name]
Merged(pytree) == [ev |-> "step", name |-> "pytree_merge", pytree |-> pytree]

\* pytree_merge(dest, src) as a statement of an api function
MergeStep(dest, src) ==
    Bind(pytree_merge(dest, src), LAMBDA r :
         IF r.ok THEN Ok(r.val, <<Merged(r.val)>>) ELSE Fail(r.err, <<Step("pytree_merge")>>))

load_pytree(c, pytree) == decode(TRec(c), pytree)

dump_pytree(obj) == encode(obj)

update(dc_, overrides) ==
    After(<<Step("encode")>>, Then(encode(dc_), LAMBDA pytree :
    Then(MergeStep(pytree, overrides), LAMBDA merged :
    After(<<Step("decode")>>, decode(TRec(dc_.cls), merged)))))

update_from_dotlist(dc_, dotlist) ==
    After(<<Step("encode_dotlist")>>, Then(encode_dotlist(dotlist), LAMBDA pytree :
    update(dc_, pytree)))

\* the markup parser is an external collaborator: a stream is the document it
\* holds, and the empty text is the empty map
parse_stream(stream) == IF stream.empty THEN Ok(EmptyMap, <<>>) ELSE Ok(stream.doc, <<>>)

\* load with the two merges in the other order
load_dotlist_first(c, stream, format, overrides, dotlist_overrides) ==
    IF format \notin {"yaml", "json"}
    THEN Fail(Err("ValueError", "Invalid format. Expected one of yaml, json."), <<>>)
    ELSE
    After(<<Step("parse")>>, Then(parse_stream(stream), LAMBDA pytree :
    Then(IF dotlist_overrides # None
         THEN After(<<Step("encode_dotlist")>>,
                    Then(encode_dotlist(dotlist_overrides.v), LAMBDA dotlist_pytree :
                         MergeStep(pytree, dotlist_pytree)))
         ELSE Ok(pytree, <<>>),
         LAMBDA m1 :
    Then(IF overrides # None THEN MergeStep(m1, overrides) ELSE Ok(m1, <<>>),
         LAMBDA m2 :
    After(<<Step("decode")>>, decode(TRec(c), m2))))))

load(c, stream, format, overrides, dotlist_overrides) ==
    IF format \notin {"yaml", "json"}
    THEN Fail(Err("ValueError", "Invalid format. Expected one of yaml, json."), <<>>)
    ELSE
    After(<<Step("parse")>>, Then(parse_stream(stream), LAMBDA pytree :
    Then(IF overrides # None THEN MergeStep(pytree, overrides) ELSE Ok(pytree, <<>>),
         LAMBDA m1 :
    Then(IF dotlist_overrides # None
         THEN After(<<Step("encode_dotlist")>>,
                    Then(encode_dotlist(dotlist_overrides.v), LAMBDA dotlist_pytree :
                         MergeStep(m1, dotlist_pytree)))
         ELSE Ok(m1, <<>>),
         LAMBDA m2 :
    After(<<Step("decode")>>, decode(TRec(c), m2))))))

(***************************************************************************)
(* The bounded inputs: the instances an application constructs, the        *)
(* pytrees, override pytrees and dotlists it passes in.                    *)
(***************************************************************************)
SeqsUpTo(X, n) == UNION {[1..k -> X] : k \in 0..n}
DictKeys == {"hey", "hey2"}
MapsOver(ks, X) == UNION {[d -> X] : d \in SUBSET ks}

RECURSIVE Vals(_), Instances(_), InstancesOver(_, _)

\* the well-typed values of a declared type
Vals(ty) ==
    CASE ty.k = "int" -> {I(5), I(7)}
      [] ty.k = "str" -> {S("5"), S("bob")}
      [] ty.k = "float" -> {F(10), F(15)}
      [] ty.k = "bool" -> {B(TRUE), B(FALSE)}
      [] ty.k = "none" -> {None}
      [] ty.k = "any" -> {I(5), S("bob")}
      [] ty.k = "list" -> {L(x) : x \in SeqsUpTo(Vals(ty.args[1]), MaxLen)}
      [] ty.k = "tuple" ->
            IF Len(ty.args) = 2 /\ ty.args[2] = Ellipsis
            THEN {Tu(x) : x \in SeqsUpTo(Vals(ty.args[1]), MaxLen)}
            ELSE {Tu(<<x, y>>) : x \in Vals(ty.args[1]), y \in Vals(ty.args[2])}
      [] ty.k = "dict" -> {M(f) : f \in MapsOver(DictKeys, Vals(ty.args[2]))}
      [] ty.k = "union" -> UNION {Vals(ty.args[i]) : i \in 1..Len(ty.args)}
      [] ty.k = "enum" -> {En(ty.name, m) : m \in EnumMembers(ty.name)}
      [] ty.k = "dataclass" -> Instances(ty.name)
      [] OTHER -> {}

\* the field maps over the names ns of class c, each a well-typed value
InstancesOver(c, ns) ==
    IF ns = {} THEN {<<>>}
    ELSE Bind(PickKey(ns), LAMBDA n :
         {Put(g, n, v) : g \in InstancesOver(c, ns \ {n}), v \in Vals(FieldOf(c, n).type)})

\* the instances of class c with every field set to a well-typed value
Instances(c) == {Inst(c, f) : f \in InstancesOver(c, FieldNames(c))}

\* classes an application constructs directly
ConstructClasses == {"Named", "Bob", "Foo", "Model", "Config", "Late", "Pal", "Pair", "Bag"}
\* classes decoded at the top level
LoadClasses == ConstructClasses \cup {"Bad", "Test", "Test2", "Outer", "Test3", "Test4",
                                      "Test5", "Shade", "Test5o"}

Junk == {None, I(5), S("5"), S("bob"), L(<<>>), L(<<I(5)>>)}
ChoiceNames == {S("a"), S("b"), S("ChildA"), S("ChildB"), S("ChildC"), S("Bob")}

RECURSIVE Raw(_), Inputs(_), RawField(_), InputsOver(_, _)

\* raw values offered for a declared type: the encodings of its values, and junk
Raw(ty) ==
    IF ty.k = "dataclass" THEN Junk \cup Inputs(ty.name)
    ELSE Junk \cup {encode(v).val : v \in Vals(ty)}
              \cup (IF ty.k = "enum" THEN {S(m) : m \in EnumMembers(ty.name)} ELSE {})

RawField(f) ==
    IF f.metadata # MISSING
    THEN Junk \cup UNION {Inputs((get_component_dataclass(f.metadata.choices[n])).val) :
                            n \in DOMAIN f.metadata.choices}
    ELSE IF f.name = "name" THEN Raw(f.type) \cup ChoiceNames
    ELSE Raw(f.type)

\* the functions over subsets of keys, each field name to one of its raw values
InputsOver(c, keys) ==
    IF keys = {} THEN {<<>>}
    ELSE Bind(PickKey(keys), LAMBDA k :
         Bind(InputsOver(c, keys \ {k}), LAMBDA rest :
              rest \cup {Put(g, k, v) : g \in rest,
                           v \in IF k = "extra" THEN {I(1)} ELSE RawField(FieldOf(c, k))}))

\* the maps offered as input for class c, over its field names and one unknown key
Inputs(c) == {M(f) : f \in InputsOver(c, FieldNames(c) \cup {"extra"})}

\* the raw values override pytrees and documents are built from
RECURSIVE Plain(_)
Plain(v) == IF v.t = "map" THEN \A k \in DOMAIN v.v : Plain(v.v[k])
            ELSE v \in {F(15), I(7), I(1), S("bob"), None, L(<<I(7)>>)}

\* override pytrees offered to update and load for class c
Overrides(c) == {o \in Inputs(c) : Plain(o)} \cup {L(<<>>)}

TokModelLr01 == <<"m", "o", "d", "e", "l", ".", "l", "r", "=", "0", ".", "1">>
TokModelLr15 == <<"m", "o", "d", "e", "l", ".", "l", "r", "=", "1", ".", "5">>
TokModelLayers == <<"m", "o", "d", "e", "l", ".", "l", "a", "y", "e", "r", "s", "=",
                    "[", "1", ",", "2", ",", "3", "]">>
TokModelInt == <<"m", "o", "d", "e", "l", "=", "5">>
TokModelEmpty == <<"m", "o", "d", "e", "l", "=", "{", "}">>
TokNoEq == <<"m", "o", "d", "e", "l", ".", "l", "r">>
TokNoValue == <<"m", "o", "d", "e", "l", ".", "l", "r", "=">>
TokNoKey == <<"=", "5">>
TokX5 == <<"x", "=", "5">>
TokXBob == <<"x", "=", "b", "o", "b">>
TokA7 == <<"a", "=", "7">>
TokANull == <<"a", "=", "n", "u", "l", "l">>

Malformed == {TokNoEq, TokNoValue, TokNoKey}

\* the override tokens offered for class c
Tokens(c) ==
    Malformed \cup
    CASE c = "Config" -> {TokModelLr01, TokModelLr15, TokModelLayers, TokModelInt,
                          TokModelEmpty}
      [] c = "Foo" -> {TokX5, TokXBob}
      [] c = "Bob" -> {TokA7, TokANull}
      [] OTHER -> {}

Dotlists(c) == SeqsUpTo(Tokens(c), MaxTokens)

\* the documents offered to load for class c
Docs(c) ==
    CASE c = "Config" -> {M("model" :> M("lr" :> F(10))),
                          M("model" :> M(("lr" :> F(15)) @@ ("layers" :> L(<<I(5)>>)))),
                          M("extra" :> I(1)), None}
      [] c = "Bob" -> {M("a" :> None), M("a" :> I(7)), M("a" :> S("bob"))}
      [] OTHER -> {}
Streams(c) == {[empty |-> TRUE, doc |-> EmptyMap]} \cup
              {[empty |-> FALSE, doc |-> p] : p \in Docs(c)}
LoadOverrides(c) ==
    {None, EmptyMap} \cup
    CASE c = "Config" -> {M("model" :> M("lr" :> F(15))), M("model" :> I(7)), I(7)}
      [] c = "Bob" -> {M("a" :> I(7))}
      [] OTHER -> {}

(***************************************************************************)
(* The state machine: an application constructs or decodes an instance,    *)
(* then encodes, updates and reloads it.                                   *)
(*   op   the last operation        cls  the class it was called with      *)
(*   arg  its other arguments       dc   the instance the caller holds     *)
(*   out  what the call returned or raised                                 *)
(***************************************************************************)
\* the sub-modules a namespace may hold and the orders they are met in
ModuleNames == {"a", "b"}
ItemNames == {"a", "b", "run1"}
Distinct(q) == \A i, j \in 1..Len(q) : i # j => q[i] # q[j]
Modules ==
    {Module(n, k, <<>>) : n \in ModuleNames, k \in {"none", "plain"}}
    \cup {Module(n, "list", q) : n \in ModuleNames,
                                 q \in {x \in SeqsUpTo(ItemNames, MaxLen) : Distinct(x)}}
Namespaces ==
    {q \in SeqsUpTo(Modules, MaxMods) : Distinct([i \in 1..Len(q) |-> q[i].name])}

Threads == 1..MaxThreads

Init ==
    /\ op = "init"
    /\ cls = "none"
    /\ arg = None
    /\ dc = None
    /\ out = Ok(None, <<>>)
    /\ heap = <<>>
    /\ held = None
    /\ calls = 0
    /\ decoders = type_decoders_at_import
    /\ cache = <<>>
    /\ req = None
    /\ fresh = 0
    /\ threads = [t \in Threads |-> [pc |-> "idle"]]
    /\ pcache = <<>>

\* x = C(...): the application builds an instance itself
Construct(c, x) ==
    /\ op = "init"
    /\ op' = "construct"
    /\ cls' = c
    /\ arg' = None
    /\ dc' = x
    /\ out' = Ok(x, <<>>)
    /\ UNCHANGED <<heap, held, calls, regVars>>

LoadPytree(c, pytree) ==
    /\ op = "init"
    /\ op' = "load_pytree"
    /\ cls' = c
    /\ arg' = pytree
    /\ out' = load_pytree(c, pytree)
    /\ UNCHANGED <<dc, heap, held, calls, regVars>>

Load(c, stream, format, overrides, dotlist_overrides) ==
    /\ op = "init"
    /\ op' = "load"
    /\ cls' = c
    /\ arg' = [stream |-> stream, format |-> format, overrides |-> overrides,
               dotlist_overrides |-> dotlist_overrides]
    /\ out' = load(c, stream, format, overrides, dotlist_overrides)
    /\ UNCHANGED <<dc, heap, held, calls, regVars>>

\* the first get_choices() of a Plugin over the namespace mods
GetChoices(mods) ==
    /\ op = "init"
    /\ op' = "get_choices"
    /\ cls' = "Plugin"
    /\ arg' = Tu(mods)
    /\ out' = Plugin_get_choices(mods)
    /\ UNCHANGED <<dc, heap, held, calls, regVars>>

\* cfg = haven.load(...): the caller holds the instance a load returned
Hold ==
    /\ op \in {"load_pytree", "load"}
    /\ out.ok
    /\ op' = "keep"
    /\ arg' = None
    /\ dc' = out.val
    /\ out' = Ok(out.val, <<>>)
    /\ UNCHANGED <<cls, heap, held, calls, regVars>>

\* obj.something(*args) on the instance a load_pytree of Test returned
Call(args) ==
    /\ op = "load_pytree"
    /\ cls = "Test"
    /\ out.ok
    /\ op' = "call"
    /\ arg' = Tu(args)
    /\ dc' = out.val
    /\ out' = IF out.val.v.something.t = "component"
              THEN Component__call__(out.val.v.something, args)
              ELSE Fail(Err("TypeError", "object is not callable"), <<>>)
    /\ UNCHANGED <<cls, heap, held, calls, regVars>>

\* the caller holds an instance and no call is in progress
Idle == op \in {"construct", "keep"}

DumpPytree ==
    /\ Idle
    /\ op' = "dump_pytree"
    /\ arg' = None
    /\ out' = dump_pytree(dc)
    /\ UNCHANGED <<cls, dc, heap, held, calls, regVars>>

\* load_pytree(type(x), dump_pytree(x))
RoundTrip ==
    /\ Idle
    /\ op' = "roundtrip"
    /\ arg' = None
    /\ out' = Then(dump_pytree(dc), LAMBDA pytree : load_pytree(dc.cls, pytree))
    /\ UNCHANGED <<cls, dc, heap, held, calls, regVars>>

Update(overrides) ==
    /\ Idle
    /\ op' = "update"
    /\ arg' = overrides
    /\ out' = update(dc, overrides)
    /\ UNCHANGED <<cls, dc, heap, held, calls, regVars>>

UpdateFromDotlist(dotlist) ==
    /\ Idle
    /\ op' = "update_from_dotlist"
    /\ arg' = L(dotlist)
    /\ out' = update_from_dotlist(dc, dotlist)
    /\ UNCHANGED <<cls, dc, heap, held, calls, regVars>>

\* cfg = haven.update(cfg, ...): the caller keeps the returned instance, or
\* goes on with the one it held
Keep ==
    /\ op \in {"update", "update_from_dotlist"}
    /\ op' = "keep"
    /\ arg' = None
    /\ dc' \in {dc} \cup (IF out.ok THEN {out.val} ELSE {})
    /\ out' = Ok(dc', <<>>)
    /\ UNCHANGED <<cls, heap, held, calls, regVars>>

Next ==
    \/ /\ op = "init"
       /\ \E c \in ConstructClasses : \E x \in Instances(c) : Construct(c, x)
    \/ /\ op = "init"
       /\ \E c \in LoadClasses : \E pytree \in Inputs(c) \cup Junk : LoadPytree(c, pytree)
    \/ /\ op = "init"
       /\ \E c \in {"Config", "Bob"} : \E stream \in Streams(c) :
            \E format \in {"yaml", "json", "toml"} :
              \E overrides \in LoadOverrides(c) :
                \E dotlist \in {None} \cup {L(d) : d \in Dotlists(c)} :
                  Load(c, stream, format, overrides, dotlist)
    \/ \E mods \in Namespaces : GetChoices(mods)
    \/ Hold
    \/ \E args \in {<<>>, <<I(5)>>} : Call(args)
    \/ DumpPytree
    \/ RoundTrip
    \/ Idle /\ \E overrides \in Overrides(cls) : Update(overrides)
    \/ Idle /\ \E dotlist \in Dotlists(cls) : UpdateFromDotlist(dotlist)
    \/ Keep

Spec == Init /\ [][Next]_vars


(***************************************************************************)
(* update on a heap of objects.  A dict, a list and an instance are cells  *)
(* of the heap and are held through references, so that what a call        *)
(* mutates in place, and what its result shares with its arguments, shows. *)
(* Scalars and enum members are immutable and are held as themselves.      *)
(* The classes taken here have ordinary init fields only.                  *)
(***************************************************************************)
HeapClasses == {"Model", "Config", "Bag"}

Ref(a) == [t |-> "ref", a |-> a]
HOk(h, v) == [ok |-> TRUE, heap |-> h, val |-> v]
HFail(h, e) == [ok |-> FALSE, heap |-> h, err |-> e]
HThen(r, rest(_, _)) == IF r.ok THEN rest(r.heap, r.val) ELSE r
\* isinstance(v, list / Mapping / a dataclass)
CellIs(h, v, t) == v.t = "ref" /\ h[v.a].t = t

\* the value an object has, its references followed
RECURSIVE Deep(_, _)
Deep(h, v) ==
    IF v.t # "ref" THEN v
    ELSE CASE h[v.a].t = "list" ->
                L([i \in 1..Len(h[v.a].v) |-> Deep(h, h[v.a].v[i])])
           [] h[v.a].t = "map" ->
                M([k \in DOMAIN h[v.a].v |-> Deep(h, h[v.a].v[k])])
           [] h[v.a].t = "inst" ->
                Inst(h[v.a].cls, [k \in DOMAIN h[v.a].v |-> Deep(h, h[v.a].v[k])])

\* the objects an object holds
Held(cell) == {cell.v[k] : k \in DOMAIN cell.v}

\* the cells reachable from an object
RECURSIVE Reach(_, _)
Reach(h, v) ==
    IF v.t # "ref" THEN {}
    ELSE {v.a} \cup UNION {Reach(h, x) : x \in Held(h[v.a])}

RECURSIVE New(_, _), NewSeq(_, _, _), NewMap(_, _, _)

\* the object that a literal, a constructor call or a default factory builds
\* for value v: every dict, list and instance in it is a cell of its own
New(h, v) ==
    CASE v.t = "list" ->
            HThen(NewSeq(h, v.v, <<>>), LAMBDA h1, items :
                  HOk(Append(h1, L(items)), Ref(Len(h1) + 1)))
      [] v.t = "map" ->
            HThen(NewMap(h, v.v, <<>>), LAMBDA h1, f :
                  HOk(Append(h1, M(f)), Ref(Len(h1) + 1)))
      [] v.t = "inst" ->
            HThen(NewMap(h, v.v, <<>>), LAMBDA h1, f :
                  HOk(Append(h1, Inst(v.cls, f)), Ref(Len(h1) + 1)))
      [] OTHER -> HOk(h, v)

NewSeq(h, s, acc) ==
    IF s = <<>> THEN HOk(h, acc)
    ELSE HThen(New(h, Head(s)), LAMBDA h1, x : NewSeq(h1, Tail(s), Append(acc, x)))

NewMap(h, f, acc) ==
    IF DOMAIN f = DOMAIN acc THEN HOk(h, acc)
    ELSE Bind(PickKey(DOMAIN f \ DOMAIN acc), LAMBDA k :
         HThen(New(h, f[k]), LAMBDA h1, x : NewMap(h1, f, Put(acc, k, x))))

\* the object itself handed on, no copy made
deepcopy_shared(h, v) == HOk(h, v)

\* copy.deepcopy(v)
deepcopy(h, v) == IF v.t # "ref" THEN HOk(h, v) ELSE New(h, Deep(h, v))

\* d[k] = v and l.append(v), in place
SetKey(h, d, k, v) == [h EXCEPT ![d.a].v = Put(@, k, v)]
AppendTo(h, l, v) == [h EXCEPT ![l.a].v = Append(@, v)]

RECURSIVE encode_in(_, _), encode_dataclass_in(_, _, _, _), encode_dict_in(_, _, _),
          encode_list_in(_, _, _, _)

\* a dict handed on as it is, the way the scalars are
encode_dict_shared(h, obj, result) == HOk(h, obj)

\* the loop of encode_dict over the keys of obj not yet in result
encode_dict_in(h, obj, result) ==
    IF DOMAIN h[obj.a].v \ DOMAIN h[result.a].v = {} THEN HOk(h, result)
    ELSE Bind(PickKey(DOMAIN h[obj.a].v \ DOMAIN h[result.a].v), LAMBDA k :
         HThen(encode_in(h, h[obj.a].v[k]), LAMBDA h1, v_ :
               encode_dict_in(SetKey(h1, result, k, v_), obj, result)))

\* [encode(v) for v in obj] from item i on
encode_list_in(h, obj, i, result) ==
    IF i > Len(h[obj.a].v) THEN HOk(h, result)
    ELSE HThen(encode_in(h, h[obj.a].v[i]), LAMBDA h1, v_ :
               encode_list_in(AppendTo(h1, result, v_), obj, i + 1, result))

\* the is_dataclass branch of encode: fields i.. of obj into the dict d
encode_dataclass_in(h, obj, i, d) ==
    IF i > Len(fields(h[obj.a].cls)) THEN HOk(h, d)
    ELSE Bind(fields(h[obj.a].cls)[i].name, LAMBDA name :
         IF name \notin DOMAIN h[obj.a].v
         THEN HFail(h, Err("AttributeError", "object has no attribute"))
         ELSE Bind(encode_in(h, h[obj.a].v[name]), LAMBDA e :
              IF ~e.ok /\ e.err.kind = "TypeError"
              THEN HFail(e.heap, Err("ParsingError", "Unable to encode field"))
              ELSE HThen(e, LAMBDA h1, v_ :
                         encode_dataclass_in(SetKey(h1, d, name, v_), obj, i + 1, d))))

encode_in(h, obj) ==
    IF obj.t # "ref"
    THEN Bind(encode(obj), LAMBDA r : IF r.ok THEN HOk(h, r.val) ELSE HFail(h, r.err))
    ELSE CASE h[obj.a].t = "inst" ->
                encode_dataclass_in(Append(h, EmptyMap), obj, 1, Ref(Len(h) + 1))
           [] h[obj.a].t = "map" ->
                encode_dict_in(Append(h, EmptyMap), obj, Ref(Len(h) + 1))
           [] h[obj.a].t = "list" ->
                encode_list_in(Append(h, L(<<>>)), obj, 1, Ref(Len(h) + 1))

RECURSIVE pytree_merge_in(_, _, _), merge_keys_in(_, _, _, _)

\* the loop of pytree_merge over the keys ks of src still to visit
merge_keys_in(h, dest, src, ks) ==
    IF ks = {} THEN HOk(h, None)
    ELSE IF ~CellIs(h, dest, "map")
    THEN HFail(h, Err("TypeError", IF CellIs(h, dest, "list") \/ dest.t = "str"
                                   THEN "object does not support item assignment"
                                   ELSE "argument is not iterable"))
    ELSE Bind(PickKey(ks), LAMBDA src_k :
         IF /\ src_k \in DOMAIN h[dest.a].v
            /\ CellIs(h, h[src.a].v[src_k], "map")
            /\ CellIs(h, h[dest.a].v[src_k], "map")
         THEN HThen(pytree_merge_in(h, h[dest.a].v[src_k], h[src.a].v[src_k]),
                    LAMBDA h1, x : merge_keys_in(h1, dest, src, ks \ {src_k}))
         ELSE HThen(deepcopy(h, h[src.a].v[src_k]), LAMBDA h1, copied :
                    merge_keys_in(SetKey(h1, dest, src_k, copied), dest, src,
                                  ks \ {src_k})))

pytree_merge_in(h, dest, src) ==
    IF ~CellIs(h, src, "map")
    THEN HFail(h, Err("AttributeError", "object has no attribute items"))
    ELSE merge_keys_in(h, dest, src, DOMAIN h[src.a].v)

\* decode_dataclass starts its field loop from this state
FieldState(d) == [obj_dict |-> d, init_args |-> <<>>, non_init_args |-> <<>>]

RECURSIVE decode_in(_, _, _), decode_list_in(_, _, _, _, _),
          decode_dict_in(_, _, _, _, _), decode_fields_in(_, _, _, _)

\* a decoder whose result holds no object of its argument: the decoders of
\* scalars, enums and their unions return immutable values, and a container
\* decoder given a value of another shape raises or builds from its scalars
decode_fresh(h, ty, raw) ==
    Bind(decode(ty, Deep(h, raw)), LAMBDA r :
         IF r.ok THEN New(h, r.val) ELSE HFail(h, r.err))

\* [decode_item_fn(v) for v in val] from item i on
decode_list_in(h, t, val, i, acc) ==
    IF i > Len(h[val.a].v) THEN HOk(Append(h, L(acc)), Ref(Len(h) + 1))
    ELSE HThen(decode_in(h, t, h[val.a].v[i]), LAMBDA h1, x :
               decode_list_in(h1, t, val, i + 1, Append(acc, x)))

\* the loop of _decode_dict over the keys of val not yet in result
decode_dict_in(h, K_, V_, val, result) ==
    IF DOMAIN h[val.a].v \ DOMAIN h[result.a].v = {} THEN HOk(h, result)
    ELSE Bind(PickKey(DOMAIN h[val.a].v \ DOMAIN h[result.a].v), LAMBDA k :
         Bind(decode(K_, S(k)), LAMBDA k_ :
              IF ~k_.ok THEN HFail(h, k_.err)
              ELSE HThen(decode_in(h, V_, h[val.a].v[k]), LAMBDA h1, v_ :
                         decode_dict_in(SetKey(h1, result, k_.val.v, v_), K_, V_,
                                        val, result))))

\* the loop of decode_dataclass over fields i.. ; obj_dict is the copy of d
decode_fields_in(h, c, i, st) ==
    IF i > Len(fields(c)) THEN HOk(h, st)
    ELSE Bind(fields(c)[i], LAMBDA field :
         IF ~Has(st.obj_dict, field.name) THEN decode_fields_in(h, c, i + 1, st)
         ELSE Bind(decode_in(h, field.type, st.obj_dict.v[field.name]), LAMBDA r :
              IF r.ok THEN decode_fields_in(r.heap, c, i + 1, Store(st, field, r.val))
              ELSE IF r.err.kind = "ParsingError" THEN r
              ELSE HFail(r.heap, FieldError(c, field, r.err))))

\* decode_dataclass on a dict d
decode_dataclass_in(h, c, d) ==
    HThen(decode_fields_in(h, c, 1, FieldState(M(h[d.a].v))), LAMBDA h1, st :
    Bind(Then(ExtraArgs(c, st), LAMBDA checked : Instantiate(c, st.init_args)),
         LAMBDA r :
         IF r.ok THEN New(h1, set_attrs(r.val, st.non_init_args))
         ELSE HFail(h1, r.err)))

decode_in(h, ty, raw) ==
    CASE ty.k = "any" -> HOk(h, raw)
      [] ty.k = "list" /\ CellIs(h, raw, "list") ->
            decode_list_in(h, ty.args[1], raw, 1, <<>>)
      [] ty.k = "dict" /\ CellIs(h, raw, "map") ->
            decode_dict_in(Append(h, EmptyMap), ty.args[1], ty.args[2], raw,
                           Ref(Len(h) + 1))
      [] ty.k = "dataclass" /\ CellIs(h, raw, "map") ->
            decode_dataclass_in(h, ty.name, raw)
      [] OTHER -> decode_fresh(h, ty, raw)

\* update(dc, overrides) on objects
update_in(h, dc_, overrides) ==
    HThen(encode_in(h, dc_), LAMBDA h1, pytree :
    HThen(pytree_merge_in(h1, pytree, overrides), LAMBDA h2, x :
          decode_in(h2, TRec(h[dc_.a].cls), pytree)))

\* the overrides and token lists handed to update on the heap
HeapOverrides(c) ==
    {o \in Overrides(c) : o.t = "map" /\ DOMAIN o.v \subseteq FieldNames(c)
                             /\ \A k \in DOMAIN o.v : o.v[k].t \in {"map", "list", "float"}}
HeapDotlists(c) == SeqsUpTo(Tokens(c), 1)

\* x = C(...): the instance and what it holds are objects of the heap
NewInstance(c, x) ==
    /\ op = "init"
    /\ op' = "new"
    /\ cls' = c
    /\ arg' = None
    /\ \E r \in {New(heap, x)} : heap' = r.heap /\ dc' = r.val
    /\ held' = x
    /\ out' = Ok(None, <<>>)
    /\ UNCHANGED <<calls, regVars>>

\* the caller holds dc and may call update on it once more
CanCall == op \in {"new", "updated", "updated_from_dotlist", "mutated"} /\ calls < MaxCalls

\* y = haven.update(x, overrides), the overrides an object of the caller
UpdateIn(overrides) ==
    /\ CanCall
    /\ op' = "updated"
    /\ calls' = calls + 1
    /\ \E o \in {New(heap, overrides)} :
          /\ arg' = o.val
          /\ \E r \in {update_in(o.heap, dc, o.val)} :
                /\ heap' = r.heap
                /\ out' = IF r.ok THEN Ok(r.val, <<>>) ELSE Fail(r.err, <<>>)
    /\ UNCHANGED <<cls, dc, held, regVars>>

\* y = haven.update_from_dotlist(x, dotlist): update(dc, encode_dotlist(dotlist))
UpdateFromDotlistIn(dotlist) ==
    /\ CanCall
    /\ op' = "updated_from_dotlist"
    /\ calls' = calls + 1
    /\ arg' = L(dotlist)
    /\ \E e \in {encode_dotlist(dotlist)} :
          IF ~e.ok THEN heap' = heap /\ out' = Fail(e.err, <<>>)
          ELSE \E o \in {New(heap, e.val)} :
                 \E r \in {update_in(o.heap, dc, o.val)} :
                    /\ heap' = r.heap
                    /\ out' = IF r.ok THEN Ok(r.val, <<>>) ELSE Fail(r.err, <<>>)
    /\ UNCHANGED <<cls, dc, held, regVars>>

\* the caller changes the returned instance, or an object it holds, in place
Mutate(a) ==
    /\ op \in {"updated", "updated_from_dotlist"}
    /\ out.ok
    /\ a \in Reach(heap, out.val)
    /\ op' = "mutated"
    /\ heap' = IF heap[a].t = "list" THEN AppendTo(heap, Ref(a), S("changed"))
               ELSE [heap EXCEPT ![a].v = [k \in DOMAIN @ \cup {"changed"} |-> S("changed")]]
    /\ UNCHANGED <<cls, arg, dc, out, held, calls, regVars>>

NextHeap ==
    \/ /\ op = "init"
       /\ \E c \in HeapClasses : \E x \in Instances(c) : NewInstance(c, x)
    \/ CanCall /\ \E overrides \in HeapOverrides(cls) : UpdateIn(overrides)
    \/ CanCall /\ \E dotlist \in HeapDotlists(cls) : UpdateFromDotlistIn(dotlist)
    \/ \E a \in 1..Len(heap) : Mutate(a)

SpecHeap == Init /\ [][NextHeap]_vars


(***************************************************************************)
(* The registry and the decode-function cache as state: decoders is         *)
(* type_decoders.registry, cache the cache of get_decoding_fn, req the      *)
(* last call made and what it returned.                                     *)
(***************************************************************************)
\* a registration that also empties the cache of get_decoding_fn
AddDecoder_clearing(ty, func, include_subclasses) ==
    /\ decoders' = register(decoders, ty, func, include_subclasses)
    /\ req' = [op |-> "add_decoder", ty |-> ty, out |-> Ok(func, <<>>)]
    /\ cache' = <<>>
    /\ UNCHANGED <<op, cls, arg, dc, out, heap, held, calls, fresh, threads, pcache>>

\* haven.add_decoder(ty, func, include_subclasses)
AddDecoder(ty, func, include_subclasses) ==
    /\ decoders' = register(decoders, ty, func, include_subclasses)
    /\ req' = [op |-> "add_decoder", ty |-> ty, out |-> Ok(func, <<>>)]
    /\ UNCHANGED <<op, cls, arg, dc, out, heap, held, calls, cache, fresh, threads, pcache>>

\* type_decoders.dispatch(ty)
Dispatch(ty) ==
    /\ req' = [op |-> "dispatch", ty |-> ty, out |-> TypeRegistry_dispatch(decoders, ty)]
    /\ UNCHANGED <<op, cls, arg, dc, out, heap, held, calls, decoders, cache, fresh,
                   threads, pcache>>

\* get_decoding_fn(ty) through its lru_cache wrapper, in one thread
GetDecodingFn(ty) ==
    /\ IF lru_hit(cache, ty)
       THEN /\ cache' = lru_touch(cache, ty)
            /\ req' = [op |-> "get_decoding_fn", ty |-> ty,
                       out |-> Ok(cache[Link(cache, ty)].result, <<>>)]
       ELSE \E r \in {get_decoding_fn_in(decoders, ty)} :
            /\ cache' = IF r.ok THEN lru_store(cache, ty, r.val) ELSE cache
            /\ req' = [op |-> "get_decoding_fn", ty |-> ty, out |-> r]
    /\ fresh' = IF ty = Dataclass(fresh + 1) THEN fresh + 1 ELSE fresh
    /\ UNCHANGED <<op, cls, arg, dc, out, heap, held, calls, decoders, threads, pcache>>

\* the decoder a program registers for a class of its own
UserFunc(ty) == [fn |-> "f", ty |-> ty]

\* the classes a program registers decoders for, and asks decoders of
RegClasses == {"P0", "P", "Q", "A", "object"}
AskClasses == {"X", "A", "B", "P", "object", "bool", "PurePath", "Path", "PosixPath"}

NextRegistry ==
    \/ /\ Len(decoders) < Len(type_decoders_at_import) + MaxRegs
       /\ \E ty \in RegClasses : \E include_subclasses \in BOOLEAN :
             AddDecoder(ty, UserFunc(ty), include_subclasses)
    \/ \E ty \in AskClasses \cup Forms : Dispatch(ty)
    \/ /\ Len(cache) < MaxCached
       /\ \E ty \in AskClasses : GetDecodingFn(ty)

SpecRegistry == Init /\ [][NextRegistry]_vars

(***************************************************************************)
(* The cache over a long run: a program decodes Path fields and one         *)
(* dataclass type after another, and registers a decoder of its own for     *)
(* Path at any time.                                                        *)
(***************************************************************************)
NextCache ==
    \/ \E ty \in {"Path"} : AddDecoder(ty, [fn |-> "g"], FALSE)
    \/ \E ty \in {"Path"} : GetDecodingFn(ty)
    \/ fresh < MaxFresh /\ GetDecodingFn(Dataclass(fresh + 1))

SpecCache == Init /\ [][NextCache]_vars

(***************************************************************************)
(* The pytree utilities called on their own.  The trees are dicts of the   *)
(* caller: dest and src are objects of the heap with no object in common,  *)
(* as are the pytree that encode or a parser built and the overrides.      *)
(***************************************************************************)
Leaves == {I(1), L(<<I(7)>>)}
TreesOver(ks, vals) == {M(f) : f \in MapsOver(ks, vals)}
Trees == TreesOver({"a", "b"}, Leaves \cup TreesOver({"x"}, Leaves))

\* pytree_merge(dest, src); held keeps the two values as they were before
PytreeMerge(dest, src) ==
    /\ op = "init"
    /\ op' = "pytree_merge"
    /\ held' = [dest |-> dest, src |-> src]
    /\ \E d \in {New(heap, dest)} : \E s \in {New(d.heap, src)} :
          /\ dc' = d.val
          /\ arg' = s.val
          /\ \E r \in {pytree_merge_in(s.heap, d.val, s.val)} :
                /\ heap' = r.heap
                /\ out' = IF r.ok THEN Ok(r.val, <<>>) ELSE Fail(r.err, <<>>)
    /\ UNCHANGED <<cls, calls, regVars>>

\* nested maps of three levels; some keys are empty or hold the separator
NestedMaps ==
    TreesOver({"a", "", "a.b"},
              {I(1)} \cup TreesOver({"", "b"}, {I(1)} \cup TreesOver({"b"}, {I(1)})))

\* single-level dicts in insertion order, their keys held as characters
FlatKeys == {<<"a">>, <<"b">>, <<"a", ".", "b">>, <<".", "a">>, <<"a", ".">>, <<>>}
FlatItems == {[key |-> k, value |-> v] : k \in FlatKeys, v \in {I(1), I(2)}}
FlatMaps == {f \in SeqsUpTo(FlatItems, MaxFlat) :
               \A i, j \in 1..Len(f) : f[i].key = f[j].key => i = j}

\* deflatten(flatten(d))
FlattenDeflatten(d) ==
    /\ op = "init"
    /\ op' = "flatten"
    /\ arg' = d
    /\ held' = [t |-> "dict", v |-> flatten(d)]
    /\ out' = deflatten(flatten(d))
    /\ UNCHANGED <<cls, dc, heap, calls, regVars>>

\* flatten(deflatten(f))
DeflattenFlatten(f) ==
    /\ op = "init"
    /\ op' = "deflatten"
    /\ arg' = [t |-> "dict", v |-> f]
    /\ held' = deflatten(f)
    /\ out' = Then(deflatten(f), LAMBDA d : Ok([t |-> "dict", v |-> flatten(d)], <<>>))
    /\ UNCHANGED <<cls, dc, heap, calls, regVars>>

NextUtils ==
    \/ \E d \in NestedMaps : FlattenDeflatten(d)
    \/ \E f \in FlatMaps : DeflattenFlatten(f)
    \/ \E dest \in Trees : \E src \in Trees : PytreeMerge(dest, src)

SpecUtils == Init /\ [][NextUtils]_vars

(***************************************************************************)
(* First use from several threads.  The wrappers of functools run under    *)
(* the interpreter lock, so the lookup and what follows the call are each  *)
(* one step; the call itself is Python code, during which another thread   *)
(* may run.  A thread is idle, has missed (its call is about to run), has  *)
(* computed (its call has returned to the wrapper) or has returned.  The   *)
(* decoders are registered before the threads start.  An object built by   *)
(* a call (a partial, a dict) is told from an equal one by the thread that *)
(* built it; a function taken from the registry is one object, built by    *)
(* none (0).                                                               *)
(***************************************************************************)
Built(v, t) == [val |-> v, by |-> IF v.fn \in {"partial", "decode_dataclass"} THEN t ELSE 0]

\* a lookup that finds no entry
cache_hit_never(cache_, key) == FALSE

\* the lookup of functools.cache: the key is in the dict
cache_hit(cache_, key) == InSeq(key, CacheKeys(cache_))

\* a wrapper that forgets what the call returned
cache_store_dropped(cache_, key, result) == cache_

\* after the call functools.cache sets the key, whatever it holds
cache_store(cache_, key, result) ==
    IF InSeq(key, CacheKeys(cache_))
    THEN [i \in 1..Len(cache_) |-> IF cache_[i].key = key
                                   THEN [key |-> key, result |-> result] ELSE cache_[i]]
    ELSE cache_ \o <<[key |-> key, result |-> result]>>

Returned(fn, key, result) == [pc |-> "returned", fn |-> fn, key |-> key, out |-> result]
CanStart(t) == threads[t].pc \in {"idle", "returned"}
At(t, pc, fn) == threads[t].pc = pc /\ threads[t].fn = fn

\* thread t calls get_decoding_fn(ty): the lookup of the lru_cache wrapper
LookupDecodingFn(t, ty) ==
    /\ CanStart(t)
    /\ IF lru_hit(cache, ty)
       THEN /\ cache' = lru_touch(cache, ty)
            /\ threads' = [threads EXCEPT ![t] =
                  Returned("get_decoding_fn", ty, Ok(cache[Link(cache, ty)].result, <<>>))]
       ELSE /\ cache' = cache
            /\ threads' = [threads EXCEPT ![t] =
                  [pc |-> "missed", fn |-> "get_decoding_fn", key |-> ty]]
    /\ UNCHANGED <<op, cls, arg, dc, out, heap, held, calls, decoders, req, fresh, pcache>>

\* the body of get_decoding_fn runs in thread t
ComputeDecodingFn(t) ==
    /\ ~CanStart(t)
    /\ At(t, "missed", "get_decoding_fn")
    /\ \E r \in {get_decoding_fn_in(decoders, threads[t].key)} :
          threads' = [threads EXCEPT ![t] =
              [pc |-> "computed", fn |-> @.fn, key |-> @.key,
               out |-> IF r.ok THEN Ok(Built(r.val, t), <<>>) ELSE r]]
    /\ UNCHANGED <<op, cls, arg, dc, out, heap, held, calls, decoders, cache, req, fresh,
                   pcache>>

\* back in the wrapper: the result is linked in unless the call raised
StoreDecodingFn(t) ==
    /\ ~CanStart(t)
    /\ At(t, "computed", "get_decoding_fn")
    /\ cache' = IF threads[t].out.ok
                THEN lru_store(cache, threads[t].key, threads[t].out.val) ELSE cache
    /\ threads' = [threads EXCEPT ![t] = Returned(@.fn, @.key, @.out)]
    /\ UNCHANGED <<op, cls, arg, dc, out, heap, held, calls, decoders, req, fresh, pcache>>

\* thread t calls get_choices() on the provider of namespace mods
LookupChoices(t, mods) ==
    /\ CanStart(t)
    /\ threads' = [threads EXCEPT ![t] =
          IF cache_hit(pcache, mods)
          THEN Returned("get_choices", mods, Ok(pcache[Link(pcache, mods)].result, <<>>))
          ELSE [pc |-> "missed", fn |-> "get_choices", key |-> mods]]
    /\ UNCHANGED <<op, cls, arg, dc, out, heap, held, calls, decoders, cache, req, fresh,
                   pcache>>

\* the body of Plugin.get_choices runs in thread t and builds a dict
ComputeChoices(t) ==
    /\ ~CanStart(t)
    /\ At(t, "missed", "get_choices")
    /\ \E r \in {Plugin_get_choices(threads[t].key)} :
          threads' = [threads EXCEPT ![t] =
              [pc |-> "computed", fn |-> @.fn, key |-> @.key,
               out |-> IF r.ok THEN Ok([val |-> r.val, by |-> t], <<>>) ELSE r]]
    /\ UNCHANGED <<op, cls, arg, dc, out, heap, held, calls, decoders, cache, req, fresh,
                   pcache>>

\* back in the wrapper: the dict is stored unless the call raised
StoreChoices(t) ==
    /\ ~CanStart(t)
    /\ At(t, "computed", "get_choices")
    /\ pcache' = IF threads[t].out.ok
                 THEN cache_store(pcache, threads[t].key, threads[t].out.val) ELSE pcache
    /\ threads' = [threads EXCEPT ![t] = Returned(@.fn, @.key, @.out)]
    /\ UNCHANGED <<op, cls, arg, dc, out, heap, held, calls, decoders, cache, req, fresh>>

\* the declared types the threads decode, and the providers they look up
ThreadTypes == {"Path", Dataclass(1), "Optional"}
Providers == {<<Module("a", "list", <<"a", "b">>), Module("b", "plain", <<>>)>>,
              <<Module("a", "plain", <<>>), Module("b", "list", <<"a">>)>>}
NoneStarted == cache = <<>> /\ pcache = <<>> /\ \A t \in Threads : threads[t].pc = "idle"

NextThreads ==
    \/ /\ NoneStarted
       /\ \E include_subclasses \in BOOLEAN :
             AddDecoder("Path", [fn |-> "g"], include_subclasses)
    \/ \E t \in Threads : \E ty \in ThreadTypes : LookupDecodingFn(t, ty)
    \/ \E t \in Threads : ComputeDecodingFn(t)
    \/ \E t \in Threads : StoreDecodingFn(t)
    \/ \E t \in Threads : \E mods \in Providers : LookupChoices(t, mods)
    \/ \E t \in Threads : ComputeChoices(t)
    \/ \E t \in Threads : StoreChoices(t)

SpecThreads == Init /\ [][NextThreads]_vars
(***************************************************************************)
(* The discovery provider in one thread.  A field declared with plugin()   *)
(* holds a Plugin; get_choices is wrapped by functools.cache, keyed by     *)
(* the provider.  The namespace is what the package directory holds when   *)
(* it is enumerated, and modules may be installed between two lookups.     *)
(*   heap    the sub-modules of the namespace, as they are now             *)
(*   held    per provider, the enumerations it has run                     *)
(*   pcache  the cache of get_choices: provider -> variant map             *)
(***************************************************************************)
PluginOps == {"plugin", "install", "get_value"}
PluginProviders == IF op \in PluginOps THEN 1..Len(held) ELSE {}
Enumerations == IF op \in PluginOps THEN held ELSE <<>>

\* a namespace of one plain module, one where the list of b repeats the name
\* of a, and one of two plain modules
PluginNamespaces ==
    {<<>>,
     <<Module("a", "plain", <<>>)>>,
     <<Module("a", "plain", <<>>), Module("b", "list", <<"a">>)>>,
     <<Module("a", "plain", <<>>), Module("b", "plain", <<>>)>>}

\* something: Base = haven.plugin(path, attr): a provider is made and put
\* into the field's metadata
PluginField ==
    /\ op = "init" \/ (op \in PluginOps /\ Len(held) < MaxProviders)
    /\ op' = "plugin"
    /\ held' = Enumerations \o <<0>>
    /\ arg' = None
    /\ out' = Ok(None, <<>>)
    /\ UNCHANGED <<cls, dc, heap, calls, regVars>>

\* modules are added to or removed from the package directory
Install(mods) ==
    /\ op \in PluginOps
    /\ mods # heap
    /\ op' = "install"
    /\ heap' = mods
    /\ arg' = None
    /\ out' = Ok(None, <<>>)
    /\ UNCHANGED <<cls, dc, held, calls, decoders, cache, req, fresh, threads, pcache>>

\* meta.choices.get_value(choice_name) on provider p: get_choices() through
\* its cache, then the lookup of the name
GetValue(p, choice_name) ==
    /\ op \in PluginOps
    /\ p \in PluginProviders
    /\ cache_hit(pcache, p) \/ held[p] < MaxEnums
    /\ op' = "get_value"
    /\ arg' = [provider |-> p, name |-> choice_name]
    /\ IF cache_hit(pcache, p)
       THEN /\ out' = Ok(get_value(pcache[Link(pcache, p)].result, choice_name), <<>>)
            /\ UNCHANGED <<held, pcache>>
       ELSE \E r \in {Plugin_get_choices(heap)} :
            /\ held' = [held EXCEPT ![p] = @ + 1]
            /\ pcache' = IF r.ok THEN cache_store(pcache, p, r.val) ELSE pcache
            /\ out' = IF r.ok THEN Ok(get_value(r.val, choice_name), <<>>) ELSE r
    /\ UNCHANGED <<cls, dc, heap, calls, decoders, cache, req, fresh, threads>>

NextPlugin ==
    \/ PluginField
    \/ \E mods \in PluginNamespaces : Install(mods)
    \/ \E p \in 1..MaxProviders : \E n \in {S("a"), S("b"), S("zzz")} : GetValue(p, n)

SpecPlugin == Init /\ [][NextPlugin]_vars

(***************************************************************************)
(* Decoders registered after a first decode.  The declared types are Path,  *)
(* the containers list[Path] and Optional[Path], whose handlers close over  *)
(* the handler of Path when they are made, and a dataclass with a field of  *)
(* type Path, whose handler asks for the handler of Path on every call.     *)
(* Every get_decoding_fn goes through the cache wrapper.                    *)
(***************************************************************************)
Containers == {"list[Path]", "Optional[Path]"}
ItemType(ty) == "Path"

\* _decode_list and _decode_optional hold the handler of their item type
Closure(ty, decode_item) ==
    [fn |-> IF ty = "list[Path]" THEN "_decode_list" ELSE "_decode_optional",
     decode_item |-> decode_item]

\* get_decoding_fn(ty) of a class or dataclass type through its cache: what
\* it returns and the cache after
get_class_fn_via(cache_, registry, ty) ==
    IF lru_hit(cache_, ty)
    THEN [cache |-> lru_touch(cache_, ty),
          out |-> Ok(cache_[Link(cache_, ty)].result, <<>>)]
    ELSE [cache |-> IF get_decoding_fn_in(registry, ty).ok
                    THEN lru_store(cache_, ty, get_decoding_fn_in(registry, ty).val)
                    ELSE cache_,
          out |-> get_decoding_fn_in(registry, ty)]

\* get_decoding_fn(ty) through its cache; the body of a container type asks
\* for the handler of its item type, through the cache too
get_decoding_fn_via(cache_, registry, ty) ==
    IF ty \notin Containers THEN get_class_fn_via(cache_, registry, ty)
    ELSE IF lru_hit(cache_, ty)
    THEN [cache |-> lru_touch(cache_, ty),
          out |-> Ok(cache_[Link(cache_, ty)].result, <<>>)]
    ELSE IF ~get_class_fn_via(cache_, registry, ItemType(ty)).out.ok
    THEN get_class_fn_via(cache_, registry, ItemType(ty))
    ELSE [cache |-> lru_store(get_class_fn_via(cache_, registry, ItemType(ty)).cache, ty,
                      Closure(ty, get_class_fn_via(cache_, registry, ItemType(ty)).out.val)),
          out |-> Ok(Closure(ty, get_class_fn_via(cache_, registry, ItemType(ty)).out.val),
                     <<>>)]

\* the function a handler of Path hands the raw value to
Applied(h) == IF h.fn = "partial" THEN h.func ELSE h

\* the handler a decode of ty hands the value of type Path inside raw_value
\* to, and the cache after: decode_dataclass asks for the handler of the
\* field's type on every call
decode_via(cache_, registry, ty) ==
    IF ty \in Containers
    THEN [cache |-> get_decoding_fn_via(cache_, registry, ty).cache,
          out |-> Ok(get_decoding_fn_via(cache_, registry, ty).out.val.decode_item, <<>>)]
    ELSE IF is_dataclass(ty)
    THEN get_class_fn_via(get_class_fn_via(cache_, registry, ty).cache, registry, "Path")
    ELSE get_decoding_fn_via(cache_, registry, ty)

\* decode(ty, raw_value): req.uses is the function the value of type Path
\* inside raw_value was handed to
Decode(ty) ==
    /\ \E r \in {decode_via(cache, decoders, ty)} :
          /\ cache' = r.cache
          /\ req' = [op |-> "decode", ty |-> ty, uses |-> Applied(r.out.val)]
    /\ UNCHANGED <<op, cls, arg, dc, out, heap, held, calls, decoders, fresh, threads,
                   pcache>>

LateTypes == {"Path"} \cup Containers \cup {Dataclass(1)}
LateFuncs == {[fn |-> "g"], [fn |-> "h"]}

NextLate ==
    \/ \E func \in LateFuncs : \E include_subclasses \in BOOLEAN :
          AddDecoder("Path", func, include_subclasses)
    \/ \E ty \in LateTypes : Decode(ty)

SpecLate == Init /\ [][NextLate]_vars


(***************************************************************************)
(* decode_dataclass frame by frame.  held is the stack of the calls of     *)
(* decode_dataclass that are in progress, the innermost last; a frame      *)
(* holds its class, the index of the field it is at, its obj_dict and      *)
(* arguments, and the choice it was entered for.  A choice field enters a  *)
(* frame for the class of the selected choice.  The interpreter allows     *)
(* MaxFrames frames; a call beyond them raises RecursionError, which       *)
(* leaves as it is or, caught by an except Exception on its way, as the    *)
(* cause of a ParsingError.                                                *)
(***************************************************************************)
Frame(c, raw_value, choice) == [cls |-> c, i |-> 1, st |-> FieldState(raw_value),
                                choice |-> choice]
Top == held[Len(held)]

\* decode_choice_field up to the call of decode_dataclass: the choice and its class
choice_target(field, raw_value) ==
    IF raw_value.t # "map"
    THEN Fail(Err("ParsingError", "Choice field only works for dataclasses, expected dict"), <<>>)
    ELSE Then(ChoiceName(field, raw_value), LAMBDA choice_name :
         Bind(get_value(field.metadata.choices, choice_name), LAMBDA choice :
         IF choice = None
         THEN Fail([kind |-> "ParsingError", why |-> "Invalid choice. Valid choices are",
                    names |-> get_choice_names(field.metadata.choices)], <<>>)
         ELSE Then(get_component_dataclass(choice), LAMBDA cls_ :
                   Ok([choice |-> choice, cls |-> cls_], <<>>))))

\* decode_choice_field after decode_dataclass returned conf
choice_value(field, conf, choice) ==
    IF is_component_type(field.type) THEN Ok(build_component(conf, choice), <<>>)
    ELSE IF is_dataclass_type(field.type) THEN Ok(conf, <<>>)
    ELSE Fail(Err("ParsingError", ""), <<>>)

\* what is left of decode_dataclass once its loop is over
finish_dataclass(c, st) ==
    Then(ExtraArgs(c, st), LAMBDA checked :
    Then(Instantiate(c, st.init_args), LAMBDA instance :
         Ok(set_attrs(instance, st.non_init_args), <<>>)))

RecursionErrors ==
    {Err("RecursionError", "maximum recursion depth exceeded"),
     [kind |-> "ParsingError", why |-> "Underlying error is",
      cause |-> Err("RecursionError", "maximum recursion depth exceeded")]}

\* an exception leaves every frame: none of them catches what a choice raises
Raise(e) ==
    /\ op' = "decoded"
    /\ held' = <<>>
    /\ out' = Fail(e, <<>>)

\* the top frame moves on to its next field with st
Advance(st) == held' = [held EXCEPT ![Len(held)] = [@ EXCEPT !.i = @ + 1, !.st = st]]

\* haven.load_pytree(c, pytree) enters the first frame
DecodeStart(c, pytree) ==
    /\ op = "init"
    /\ op' = "decoding"
    /\ cls' = c
    /\ arg' = pytree
    /\ held' = <<Frame(c, pytree, None)>>
    /\ out' = Ok(None, <<>>)
    /\ UNCHANGED <<dc, heap, calls, regVars>>

\* one turn of the loop over fields(cls) in the innermost frame
FieldStep ==
    /\ op = "decoding"
    /\ Top.i <= Len(fields(Top.cls))
    /\ \E field \in {fields(Top.cls)[Top.i]} :
       IF field.metadata # MISSING
       THEN \E r \in {choice_target(field, IF Has(Top.st.obj_dict, field.name)
                                           THEN Top.st.obj_dict.v[field.name]
                                           ELSE EmptyMap)} :
            IF ~r.ok THEN Raise(r.err)
            ELSE IF Len(held) >= MaxFrames THEN \E e \in RecursionErrors : Raise(e)
            ELSE /\ held' = Append(held, Frame(r.val.cls,
                                               IF Has(Top.st.obj_dict, field.name)
                                               THEN Top.st.obj_dict.v[field.name]
                                               ELSE EmptyMap, r.val.choice))
                 /\ UNCHANGED <<op, out>>
       ELSE IF ~Has(Top.st.obj_dict, field.name)
       THEN Advance(Top.st) /\ UNCHANGED <<op, out>>
       ELSE \E r \in {decode_field(field, Top.st.obj_dict.v[field.name])} :
            IF r.ok THEN Advance(Store(Top.st, field, r.val)) /\ UNCHANGED <<op, out>>
            ELSE IF r.err.kind = "ParsingError" THEN Raise(r.err)
            ELSE Raise(FieldError(Top.cls, field, r.err))
    /\ UNCHANGED <<cls, arg, dc, heap, calls, regVars>>

\* the innermost frame is past its last field: it returns its instance, to
\* the choice field of the frame below or to the caller
Return ==
    /\ op = "decoding"
    /\ Top.i > Len(fields(Top.cls))
    /\ \E r \in {finish_dataclass(Top.cls, Top.st)} :
       IF ~r.ok THEN Raise(r.err)
       ELSE IF Len(held) = 1
       THEN op' = "decoded" /\ held' = <<>> /\ out' = Ok(r.val, <<>>)
       ELSE \E below \in {held[Len(held) - 1]} :
            \E v \in {choice_value(fields(below.cls)[below.i], r.val, Top.choice)} :
            IF ~v.ok THEN Raise(v.err)
            ELSE /\ held' = Append(SubSeq(held, 1, Len(held) - 2),
                                   [below EXCEPT !.i = @ + 1,
                                       !.st = Store(@, fields(below.cls)[below.i], v.val)])
                 /\ UNCHANGED <<op, out>>
    /\ UNCHANGED <<cls, arg, dc, heap, calls, regVars>>

\* the pytrees of a linked schema: a name, a nested map, a stray key
LinkNames == {S("Node"), S("Node2"), S("Leaf"), S("zzz"), I(1)}
LinkMaps(inner) ==
    {M(f) : f \in MapsOver({"name"}, LinkNames)}
    \cup {M(f @@ ("nxt" :> x)) : f \in MapsOver({"name"}, LinkNames), x \in inner}
LinkTrees == LinkMaps({I(1)} \cup LinkMaps({EmptyMap, I(1)}))
             \cup {M(("extra" :> I(1)))}
LinkClasses == {"Node", "Node2", "Leaf"}

NextFrames ==
    \/ \E c \in LinkClasses : \E pytree \in LinkTrees : DecodeStart(c, pytree)
    \/ FieldStep
    \/ Return

SpecFrames == Init /\ [][NextFrames]_vars
(***************************************************************************)
(* Properties.                                                             *)
(***************************************************************************)
Range(s) == {s[i] : i \in 1..Len(s)}

\* the names of the api steps a call went through, in order
Steps(log) ==
    [i \in 1..Len(SelectSeq(log, LAMBDA e : e.ev = "step")) |->
        SelectSeq(log, LAMBDA e : e.ev = "step")[i].name]
LastStep(log) == IF Steps(log) = <<>> THEN "none" ELSE Steps(log)[Len(Steps(log))]

\* the pytrees the merges of a call left, in order
Merges(log) ==
    SelectSeq(log, LAMBDA e : e.ev = "step" /\ e.name = "pytree_merge"
                                /\ "pytree" \in DOMAIN e)

\* v is an instance of the declared type ty, every record of exactly the
\* declared class and with every field set
RECURSIVE Typed(_, _)
Typed(ty, v) ==
    CASE ty.k \in {"int", "str", "float", "bool", "none"} -> v.t = ty.k
      [] ty.k = "any" -> TRUE
      [] ty.k = "list" -> v.t = "list" /\ \A i \in 1..Len(v.v) : Typed(ty.args[1], v.v[i])
      [] ty.k = "tuple" ->
            /\ v.t = "tuple"
            /\ IF Len(ty.args) = 2 /\ ty.args[2] = Ellipsis
               THEN \A i \in 1..Len(v.v) : Typed(ty.args[1], v.v[i])
               ELSE /\ Len(v.v) = Len(ty.args)
                    /\ \A i \in 1..Len(v.v) : Typed(ty.args[i], v.v[i])
      [] ty.k = "dict" -> v.t = "map" /\ \A k \in DOMAIN v.v : Typed(ty.args[2], v.v[k])
      [] ty.k = "union" -> \E i \in 1..Len(ty.args) : Typed(ty.args[i], v)
      [] ty.k = "enum" -> v.t = "enum" /\ v.cls = ty.name
      [] ty.k = "dataclass" ->
            /\ v.t = "inst" /\ v.cls = ty.name
            /\ DOMAIN v.v = FieldNames(ty.name)
            /\ \A n \in FieldNames(ty.name) :
                  /\ FieldOf(ty.name, n).metadata = MISSING
                  /\ Typed(FieldOf(ty.name, n).type, v.v[n])
      [] OTHER -> FALSE

\* at every union inside ty, the part of v held there is null or is rejected by
\* the decoder of every member declared before the first member it is an instance of;
\* and every enumeration inside ty is a plain one
RECURSIVE FirstMatch(_, _)
FirstMatch(ty, v) ==
    CASE ty.k = "list" -> \A i \in 1..Len(v.v) : FirstMatch(ty.args[1], v.v[i])
      [] ty.k = "tuple" ->
            \A i \in 1..Len(v.v) :
               FirstMatch(IF Len(ty.args) = 2 /\ ty.args[2] = Ellipsis
                          THEN ty.args[1] ELSE ty.args[i], v.v[i])
      [] ty.k = "dict" -> \A k \in DOMAIN v.v : FirstMatch(ty.args[2], v.v[k])
      [] ty.k = "enum" -> EnumBase(ty.name) = TNone
      [] ty.k = "dataclass" ->
            \A n \in FieldNames(ty.name) : FirstMatch(FieldOf(ty.name, n).type, v.v[n])
      [] ty.k = "union" ->
            \/ v = None
            \/ LET rest == SelectSeq(ty.args, LAMBDA t : t # TNone)
                   own == CHOOSE i \in 1..Len(rest) :
                             /\ Typed(rest[i], v)
                             /\ \A j \in 1..(i - 1) : ~Typed(rest[j], v)
               IN /\ \A j \in 1..(own - 1) : ~decode(rest[j], encode(v).val).ok
                  /\ FirstMatch(rest[own], v)
      [] OTHER -> TRUE

C2_ClosedWorld ==
    (/\ op = "load_pytree" /\ arg.t = "map"
     /\ DOMAIN arg.v \ FieldNames(cls) # {}
     /\ decode_fields(cls, 1, FieldState(arg)).ok)
        => (/\ ~out.ok
            /\ out.err.kind = "Exception"
            /\ out.err.why = "The fields do not belong to the class")

\* {name: "bob", extra: 1} against the fields {name}
C2_Witness ==
    /\ op = "load_pytree" /\ cls = "Named"
    /\ arg = M(("name" :> S("bob")) @@ ("extra" :> I(1)))
    /\ ~out.ok /\ out.err.why = "The fields do not belong to the class"

\* the non-null members of the union the only field of class c is declared as
Members(c) == SelectSeq(fields(c)[1].type.args, LAMBDA t : t # TNone)
\* the members whose decoder accepts the raw value
Accepting(c, raw) == {i \in 1..Len(Members(c)) : decode(Members(c)[i], raw).ok}
First(is) == CHOOSE i \in is : \A j \in is : i <= j
\* the functions of the union that were called
TriedIn(log) == {e.idx : e \in {x \in Range(log) : x.ev = "try"}}

C4_OptionalField ==
    (op = "load_pytree" /\ cls = "Bob" /\ arg.t = "map" /\ DOMAIN arg.v \subseteq {"a"})
        => IF "a" \notin DOMAIN arg.v
           THEN out.ok /\ out.val.v["a"] = fields("Bob")[1].default
           ELSE IF arg.v["a"] = None
           THEN out.ok /\ out.val.v["a"] = None /\ RanMember \notin Range(out.log)
           ELSE IF Accepting("Bob", arg.v["a"]) # {}
           THEN /\ out.ok
                /\ out.val.v["a"] =
                      decode(Members("Bob")[First(Accepting("Bob", arg.v["a"]))],
                             arg.v["a"]).val
                /\ RanMember \in Range(out.log)
           ELSE ~out.ok

\* {a: null} gives a == null without a call of int
C4_Witness ==
    /\ op = "load_pytree" /\ cls = "Bob" /\ arg = M("a" :> None)
    /\ out.ok /\ out.val.v["a"] = None /\ out.log = <<Tried(1)>>

\* the fields of class c with neither default nor factory that d has no key for
Missing(c, d) ==
    {n \in FieldNames(c) : ~HasDefault(FieldOf(c, n)) /\ n \notin DOMAIN d.v}

\* C5 as stated: a map with no key for a field that has neither default nor
\* factory never yields an instance: the field is skipped with a warning and the
\* decode fails with the parsing error at construction.
C5_MissingNeverYields ==
    (op = "load_pytree" /\ arg.t = "map" /\ Missing(cls, arg) # {})
        => (~out.ok /\ out.err.kind = "ParsingError")

\* C5 amended: when the missing field is an ordinary field that the constructor
\* takes, no instance is returned; and when every field present decodes and no
\* unknown key is left, each missing field is logged and the failure is the
\* parsing error raised at construction.
C5_MissingInitField ==
    (/\ op = "load_pytree" /\ arg.t = "map"
     /\ \E n \in Missing(cls, arg) :
           FieldOf(cls, n).init /\ FieldOf(cls, n).metadata = MISSING)
        => (/\ ~out.ok
            /\ (decode_fields(cls, 1, FieldState(arg)).ok
                  /\ DOMAIN arg.v \subseteq FieldNames(cls))
               => (/\ out.err.kind = "ParsingError"
                   /\ out.err.why = "Couldn't instantiate class"
                   /\ out.err.cause.kind = "TypeError"
                   /\ \A n \in Missing(cls, arg) :
                         FieldOf(cls, n).metadata = MISSING
                            => WarnMissing(cls, n) \in Range(out.log)))

\* {} against a class whose only field has no default
C5_Witness ==
    /\ op = "load_pytree" /\ cls = "Named" /\ arg = EmptyMap
    /\ ~out.ok /\ out.err.why = "Couldn't instantiate class"
    /\ out.log = <<WarnMissing("Named", "name")>>

\* the value a pytree holds at a key path
RECURSIVE Get(_, _)
Get(p, path) ==
    IF path = <<>> THEN p
    ELSE IF p.t = "map" /\ Head(path) \in DOMAIN p.v THEN Get(p.v[Head(path)], Tail(path))
    ELSE MISSING

\* the key paths of a pytree that end at a value other than a non-empty map
RECURSIVE LeafPaths(_)
LeafPaths(p) ==
    IF p.t = "map" /\ DOMAIN p.v # {}
    THEN UNION {{<<k>> \o q : q \in LeafPaths(p.v[k])} : k \in DOMAIN p.v}
    ELSE {<<>>}

Prefix(a, b) == Len(a) <= Len(b) /\ SubSeq(b, 1, Len(a)) = a
Related(a, b) == Prefix(a, b) \/ Prefix(b, a)

\* a token key=value splits at its first "=", with both sides non-empty
WellFormed(tok) == find(tok, "=") \notin {-1, 0, Len(tok) - 1}
TokenPath(tok) == split(SubSeq(tok, 1, find(tok, "=")), ".")
TokenValue(tok) == encode_yaml(SubSeq(tok, find(tok, "=") + 2, Len(tok)))

\* a call that was given a token list, and the list
DotCall ==
    \/ op = "update_from_dotlist" /\ encode(dc).ok
    \/ op = "load" /\ arg.format \in {"yaml", "json"} /\ arg.dotlist_overrides # None
DotTokens == IF op = "load" THEN arg.dotlist_overrides.v ELSE arg.v
\* the merges of the call that come before the merge of the token list
PriorMerges == IF op = "load" /\ arg.overrides # None THEN 1 ELSE 0
\* the token stage of the call was reached with a base pytree
DotReached == DotCall /\ Len(Merges(out.log)) >= PriorMerges
DotBase ==
    IF op = "update_from_dotlist" THEN encode(dc).val
    ELSE IF arg.overrides = None THEN parse_stream(arg.stream).val
    ELSE Merges(out.log)[1].pytree
DotMerged == Len(Merges(out.log)) = PriorMerges + 1
DotResult == Merges(out.log)[PriorMerges + 1].pytree

\* C7 as stated: applying well-formed tokens to a base pytree sets each token's
\* parsed value at its nested key path and leaves every other path of the base
\* unchanged.
C7_TokensSetPaths ==
    (/\ DotReached /\ DotBase.t = "map"
     /\ \A i \in 1..Len(DotTokens) : WellFormed(DotTokens[i]))
        => (/\ DotMerged
            /\ \A i \in 1..Len(DotTokens) :
                  Get(DotResult, TokenPath(DotTokens[i])) = TokenValue(DotTokens[i]).val
            /\ \A q \in LeafPaths(DotBase) :
                  (\A i \in 1..Len(DotTokens) : q # TokenPath(DotTokens[i]))
                     => Get(DotResult, q) = Get(DotBase, q))

\* no key of the tokens is a proper dot-prefix of another, no value is a map
Separate(toks) ==
    /\ \A i, j \in 1..Len(toks) :
          TokenPath(toks[i]) # TokenPath(toks[j])
             => ~Related(TokenPath(toks[i]), TokenPath(toks[j]))
    /\ \A i \in 1..Len(toks) : TokenValue(toks[i]).ok /\ TokenValue(toks[i]).val.t # "map"

\* C7 amended: when no token's key is a proper dot-prefix of another's and no
\* parsed value is a map, the merged pytree holds at each token's key path the
\* parsed value of the last token with that key, and every path of the base
\* that is neither a prefix nor an extension of a token's key is unchanged.
C7_SeparateTokensSetPaths ==
    (/\ DotReached /\ DotBase.t = "map"
     /\ \A i \in 1..Len(DotTokens) : WellFormed(DotTokens[i])
     /\ Separate(DotTokens))
        => (/\ DotMerged
            /\ \A i \in 1..Len(DotTokens) :
                  (\A j \in (i + 1)..Len(DotTokens) :
                        TokenPath(DotTokens[j]) # TokenPath(DotTokens[i]))
                     => Get(DotResult, TokenPath(DotTokens[i])) = TokenValue(DotTokens[i]).val
            /\ \A q \in LeafPaths(DotBase) :
                  (\A i \in 1..Len(DotTokens) : ~Related(q, TokenPath(DotTokens[i])))
                     => Get(DotResult, q) = Get(DotBase, q))

\* model.layers=[1,2,3] on a document without layers, lr left as it was
C7_Witness ==
    /\ op = "load" /\ cls = "Config" /\ arg.format = "yaml" /\ arg.overrides = None
    /\ arg.stream.doc = M("model" :> M("lr" :> F(10))) /\ ~arg.stream.empty
    /\ arg.dotlist_overrides = L(<<TokModelLayers>>)
    /\ DotMerged
    /\ DotResult = M("model" :> M(("lr" :> F(10)) @@ ("layers" :> L(<<I(1), I(2), I(3)>>))))
    /\ out.ok

\* a token of the list does not split into a key and a value
HasMalformed == \E i \in 1..Len(DotTokens) : ~WellFormed(DotTokens[i])

ApiCall == op \in {"load_pytree", "load", "update", "update_from_dotlist"}

\* the pytree the call handed to decode
Decoded ==
    IF op = "load_pytree" THEN arg
    ELSE IF Merges(out.log) # <<>> THEN Merges(out.log)[Len(Merges(out.log))].pytree
    ELSE parse_stream(arg.stream).val

\* the stage of the call that failed
Stage == IF op = "load_pytree" THEN "decode"
         ELSE IF op = "load" /\ arg.format \notin {"yaml", "json"} THEN "format"
         ELSE LastStep(out.log)

OneField == op = "load_pytree" /\ arg.t = "map" /\ Len(fields(cls)) = 1
Inner ==
    IF fields(cls)[1].metadata # MISSING
    THEN decode_choice_field(fields(cls)[1],
                             IF fields(cls)[1].name \in DOMAIN arg.v
                             THEN arg.v[fields(cls)[1].name] ELSE EmptyMap)
    ELSE decode_field(fields(cls)[1], arg.v[fields(cls)[1].name])
InnerFails ==
    /\ OneField
    /\ fields(cls)[1].metadata = MISSING => fields(cls)[1].name \in DOMAIN arg.v
    /\ ~Inner.ok

\* the error names record c and its field n
Names(e, c, n) ==
    /\ e.kind = "ParsingError"
    /\ {"cls", "field"} \subseteq DOMAIN e
    /\ e.cls = c /\ e.field = n

\* C10 as stated: an error raised while decoding a field, ordinary or choice,
\* parsing error or not, reaches the caller as a ParsingError that names the
\* enclosing record type and the field.
C10_AnnotatedAtEachFrame ==
    InnerFails => (~out.ok /\ Names(out.err, cls, fields(cls)[1].name))

\* C10 amended: an error of an ordinary field that is not a ParsingError is
\* replaced by a ParsingError naming the record type, the field and that error;
\* a ParsingError from below, and any error of a choice field, reaches the
\* caller as it was raised, so the error names one record and field at most.
C10_AnnotatedOnce ==
    InnerFails
        => /\ ~out.ok
           /\ IF fields(cls)[1].metadata = MISSING /\ Inner.err.kind # "ParsingError"
              THEN /\ Names(out.err, cls, fields(cls)[1].name)
                   /\ out.err.cause = Inner.err
              ELSE out.err = Inner.err
           /\ "cause" \in DOMAIN out.err => out.err.cause.kind # "ParsingError"

\* the error of model.lr reaches the caller of Config naming Model and lr only
C10_Witness ==
    /\ op = "load_pytree" /\ cls = "Config"
    /\ arg = M("model" :> M("lr" :> S("bob")))
    /\ ~out.ok /\ Names(out.err, "Model", "lr") /\ out.err.cause.kind = "ValueError"

\* decode(type(dc), merge(encode(dc), overrides)) on values
Composed(x, overrides) ==
    Then(encode(x), LAMBDA pytree :
    Then(pytree_merge(pytree, overrides), LAMBDA merged :
         decode(TRec(x.cls), merged)))

\* what the last call on the heap has to return
Expected ==
    IF op = "updated" THEN Composed(held, Deep(heap, arg))
    ELSE Then(encode_dotlist(arg.v), LAMBDA overrides : Composed(held, overrides))

\* C6: update(dc, overrides) returns a new instance equal to
\* decode(type(dc), merge(encode(dc), overrides)); after any sequence of update
\* and update_from_dotlist calls dc and every value reachable from it are
\* unchanged, and a mutation of a returned instance does not change dc.
C6_UpdateReturnsFresh ==
    (op \in {"updated", "updated_from_dotlist", "mutated"})
        => /\ Deep(heap, dc) = held
           /\ op # "mutated" =>
                 /\ out.ok = Expected.ok
                 /\ out.ok =>
                       /\ Deep(heap, out.val) = Expected.val
                       /\ out.val # dc
                       /\ Reach(heap, out.val) \cap Reach(heap, dc) = {}
                 /\ ~out.ok => out.err = Expected.err

\* a dict of the instance merged with a key of the overrides in a second call,
\* the result then changed in place: dc still holds what it held
C6_Witness ==
    /\ op = "mutated" /\ cls = "Bag" /\ calls = 2
    /\ held = Inst("Bag", "d" :> M("hey" :> I(5)))
    /\ Deep(heap, arg) = M("d" :> M("hey2" :> I(7)))
    /\ Deep(heap, dc) = held
    /\ Deep(heap, out.val).v["d"] = S("changed")


(***************************************************************************)
(* Choice fields: the variant name, unknown names, and what decode yields.  *)
(***************************************************************************)
\* the one field of a class that declares a choice field
ChoiceField(c) == fields(c)[1]

\* a load_pytree of a class with a choice field whose raw value is a map
ChoiceLoad ==
    /\ op = "load_pytree"
    /\ cls \in {"Test", "Test2", "Test3", "Test4", "Test5"}
    /\ arg.t = "map"
    /\ "something" \in DOMAIN arg.v => arg.v.something.t = "map"

RawChoice == IF "something" \in DOMAIN arg.v THEN arg.v.something ELSE EmptyMap

\* the record schema the choice field declares, one Component layer unwrapped
Target(c) ==
    IF ChoiceField(c).type.k = "component" THEN ChoiceField(c).type.args[1]
    ELSE ChoiceField(c).type

Known(c) == ChoiceField(c).metadata.choices

\* the declared default of the discriminator field in the target schema
TargetDefault(c) ==
    IF "name" \notin FieldNames(Target(c).name) THEN MISSING
    ELSE IF FieldOf(Target(c).name, "name").default # MISSING
    THEN FieldOf(Target(c).name, "name").default
    ELSE FieldOf(Target(c).name, "name").default_factory

\* the variant a decoded choice value was built from
Variant(v) == IF v.t = "component" THEN v.func ELSE ChoiceClass(v.cls)

NameErrors == {"Choice field has key field that is not a string",
               "cannot find key field for determining which choice to use",
               "The choice field type is not a dataclass."}

\* the decode went on with the name n: it picked the variant registered
\* under n, or failed later than the resolution of the name
UsesName(n) ==
    /\ out.ok => /\ n.t = "str"
                 /\ n.v \in DOMAIN Known(cls)
                 /\ Variant(out.val.v.something) = Known(cls)[n.v]
    /\ ~out.ok => out.err.why \notin NameErrors

\* C11: the variant name is the value of the discriminator key when the raw
\* map has it, and a value that is not a string is an error; when the key is
\* absent the name is the default value or default-factory result of the
\* same-named field of the declared target schema, one Component layer
\* unwrapped; with neither, decode fails with the error that the choice to
\* use cannot be determined.
C11_VariantName ==
    ChoiceLoad /\ cls # "Test4" =>
        IF "name" \in DOMAIN RawChoice.v
        THEN IF RawChoice.v.name.t # "str"
             THEN /\ ~out.ok
                  /\ out.err = Err("ParsingError",
                                   "Choice field has key field that is not a string")
             ELSE UsesName(RawChoice.v.name)
        ELSE IF TargetDefault(cls) # MISSING
             THEN UsesName(TargetDefault(cls))
             ELSE /\ ~out.ok
                  /\ out.err = Err("ParsingError",
                         "cannot find key field for determining which choice to use")

\* the default-factory result "ChildB" of Base3.name selected ChildB2
C11_Witness ==
    /\ ChoiceLoad
    /\ cls = "Test3"
    /\ "name" \notin DOMAIN RawChoice.v
    /\ out.ok
    /\ out.val.v.something.cls = "ChildB2"

\* the name the choice resolution settles on for the raw map
ResolvedName ==
    IF "name" \in DOMAIN RawChoice.v THEN RawChoice.v.name ELSE TargetDefault(cls)

\* the resolution comes up with a name and the provider does not know it
UnknownName ==
    /\ ChoiceLoad
    /\ "name" \notin DOMAIN RawChoice.v => is_dataclass_type(Target(cls))
    /\ ResolvedName # MISSING
    /\ ResolvedName.t = "str"
    /\ ResolvedName.v \notin get_choice_names(Known(cls))

\* C12: when the resolved variant name is not among the names the field's
\* provider knows, decode fails with a ParsingError that lists all the names
\* the provider knows, and neither an instance nor a Component is produced.
C12_UnknownVariant ==
    UnknownName =>
        /\ ~out.ok
        /\ out.err.kind = "ParsingError"
        /\ "names" \in DOMAIN out.err
        /\ out.err.names = DOMAIN Known(cls)

\* the name ChildC of the component test
C12_Witness ==
    /\ UnknownName
    /\ cls = "Test"
    /\ ResolvedName = S("ChildC")
    /\ ~out.ok
    /\ out.err.names = {"a", "b"}

\* the class whose schema the selected variant is decoded against
VariantClass(choice) == IF choice.kind = "dataclass" THEN choice.name ELSE choice.param.name

\* the choice field of the instance a load returned
Something == out.val.v.something

Contributes(mod) ==
    CASE mod.kind = "none" -> {}
      [] mod.kind = "plain" -> {mod.name}
      [] mod.kind = "list" -> Range(mod.items)

\* two different sub-modules of the namespace contribute the same name
Collides(mods) ==
    \E i, j \in 1..Len(mods) :
        i # j /\ Contributes(mods[i]) \cap Contributes(mods[j]) # {}

\* C14: a discovery provider raises the duplicate-name ParsingError whenever
\* two different sub-modules contribute the same name, in whatever order the
\* sub-modules are enumerated and whichever way each contributes the name
\* (its own module name for a plain attribute, or an entry of a list).
C14_DuplicateRaised ==
    op = "get_choices" /\ Collides(arg.v) =>
        /\ ~out.ok
        /\ out.err.kind = "ParsingError"
        /\ out.err.why = "Duplicate choices registered in plugin provider"

(***************************************************************************)
(* The discriminator key in the map the variant is decoded from            *)
(***************************************************************************)
\* the raw map of the choice field names a variant the provider knows
NamedVariant ==
    /\ ChoiceLoad
    /\ cls # "Test4"
    /\ "name" \in DOMAIN RawChoice.v
    /\ RawChoice.v.name.t = "str"
    /\ RawChoice.v.name.v \in DOMAIN Known(cls)

\* the schema of the variant the raw map names
NamedClass == VariantClass(Known(cls)[RawChoice.v.name.v])

\* the configuration of the decoded choice value
Config(v) == IF v.t = "component" THEN v.config ELSE v

DeclaresKey(c) == "name" \in FieldNames(c) /\ FieldOf(c, "name").metadata = MISSING

ClosedWorld == Err("Exception", "The fields do not belong to the class")

\* C22: the schema of the selected variant is decoded against the raw map of
\* the choice field as it came, the discriminator key still in it: a decode
\* that succeeds has read the key as an ordinary field of the variant, whose
\* value it is in the instance; a variant that does not declare the key makes
\* decode fail, with the error of the closed-world rule when the rest of the
\* map is one the variant accepts.
C22_KeyStaysInMap ==
    NamedVariant =>
        /\ out.ok => /\ DeclaresKey(NamedClass)
                     /\ Config(Something).v.name = RawChoice.v.name
        /\ ~DeclaresKey(NamedClass) =>
              /\ ~out.ok
              /\ decode_dataclass(NamedClass, M(Drop(RawChoice.v, "name"))).ok
                    => out.err = ClosedWorld

C22_Witness ==
    /\ NamedVariant
    /\ cls = "Test5"
    /\ RawChoice.v.name = S("Bob")
    /\ "a" \in DOMAIN RawChoice.v /\ RawChoice.v.a.t = "int"
    /\ ~out.ok /\ out.err = ClosedWorld

\* a load_pytree of a class with a choice field, the field's key not in the map
KeyAbsent == ChoiceLoad /\ "something" \notin DOMAIN arg.v

\* C23: a choice field whose key is absent from the input map is decoded as
\* if the map held the empty map under it; the field's own default or
\* default factory is not used, so a decode that succeeds yields the variant
\* named by the default of the discriminator field of the declared target
\* schema, and with no such default the decode fails.
C23_AbsentKey ==
    KeyAbsent =>
        /\ out = load_pytree(cls, M(Put(arg.v, "something", EmptyMap)))
        /\ out.ok => /\ cls # "Test4"
                     /\ TargetDefault(cls) # MISSING
                     /\ Variant(Something) = Known(cls)[TargetDefault(cls).v]
        /\ cls # "Test4" /\ TargetDefault(cls) = MISSING =>
               /\ ~out.ok
               /\ out.err = Err("ParsingError",
                      "cannot find key field for determining which choice to use")
        /\ cls = "Test4" => ~out.ok

\* Test5 from {}: the field's default factory would give a ChildA2, the
\* default "Bob" of Base4.name selected Bob
C23_Witness ==
    /\ KeyAbsent
    /\ cls = "Test5"
    /\ DefaultOf(ChoiceField(cls)).cls = "ChildA2"
    /\ out.ok
    /\ Something = Inst("Bob", [a |-> I(5)])

\* Test5 and Test5o declare the same choice field, Test5o with outer=True
OuterTwin(c) == IF c = "Test5" THEN "Test5o" ELSE "Test5"

\* the result r, an instance of it said to be of class c
OfClass(r, c) == IF r.ok /\ r.val.t = "inst" THEN [r EXCEPT !.val.cls = c] ELSE r

Asked(o) == req # None /\ req.op = o

\* the handler h applies the function of the registry item e
Applies(h, e) ==
    \/ h = e.fn.func
    \/ "func" \in DOMAIN h /\ h.fn = "partial" /\ h.func = e.fn.func

\* C16: a decoder registered for T without include_subclasses is applied
\* only when the declared type is exactly T; it is applied to a strict
\* subclass of T only when it was registered with include_subclasses, and
\* then the function receives the requested subclass as its first argument.
C16_SubclassesOnlyWhenIncluded ==
    Asked("get_decoding_fn") /\ req.out.ok =>
        \A i \in 1..Len(decoders) :
            Applies(req.out.val, decoders[i]) /\ decoders[i].ty # req.ty =>
                /\ decoders[i].fn.include_subclasses
                /\ issubclass(req.ty, decoders[i].ty)
                /\ req.out.val = [fn |-> "partial", func |-> decoders[i].fn.func,
                                  cls |-> req.ty]

\* the registered types that the class ty is a subclass of
RegisteredAncestors(ty) ==
    IF ty \notin Classes THEN {} ELSE {k \in Range(Keys(decoders)) : issubclass(ty, k)}

\* those of them that no other one is a subclass of
MostSpecific(ty) ==
    {k \in RegisteredAncestors(ty) :
        \A k2 \in RegisteredAncestors(ty) \ {k} : ~issubclass(k2, k)}

\* registered ancestors that ty inherits from, and those it only implements
Explicit(ty) == {k \in MostSpecific(ty) : InSeq(k, __mro__(ty))}
Implicit(ty) == {k \in MostSpecific(ty) : ~InSeq(k, __mro__(ty))}

\* the first class of the linearization mro that is among ks
FirstIn(mro, ks) ==
    mro[CHOOSE i \in 1..Len(mro) : mro[i] \in ks /\ \A j \in 1..(i - 1) : mro[j] \notin ks]

\* C17: dispatch(ty) returns the handler registered for exactly T when there
\* is one; otherwise the handler of the nearest registered ancestor of T in
\* the linearized inheritance order; None when no registered type is an
\* ancestor of T; and an ambiguity error, never a guess, when two unrelated
\* registered types match equally well.
C17_NearestOrAmbiguous ==
    Asked("dispatch") =>
        IF HasKey(decoders, req.ty) THEN req.out = Ok(Get_(decoders, req.ty), <<>>)
        ELSE IF RegisteredAncestors(req.ty) = {} THEN req.out = Ok(None, <<>>)
        ELSE IF Cardinality(Implicit(req.ty)) >= 2
        THEN ~req.out.ok /\ req.out.err = Err("RuntimeError", "Ambiguous dispatch")
        ELSE IF Implicit(req.ty) = {}
        THEN req.out = Ok(Get_(decoders, FirstIn(__mro__(req.ty), Explicit(req.ty))), <<>>)
        ELSE IF Explicit(req.ty) = {}
        THEN req.out = Ok(Get_(decoders, CHOOSE k \in Implicit(req.ty) : TRUE), <<>>)
        ELSE req.out.ok

LooksUpCached == req'.op = "get_decoding_fn" /\ InSeq(req'.ty, CacheKeys(cache))

RECURSIVE reference_merge(_, _)
reference_merge(d, s) ==
    M([k \in DOMAIN d.v \cup DOMAIN s.v |->
         IF k \notin DOMAIN s.v THEN d.v[k]
         ELSE IF k \in DOMAIN d.v /\ d.v[k].t = "map" /\ s.v[k].t = "map"
         THEN reference_merge(d.v[k], s.v[k])
         ELSE s.v[k]])

\* C18: after pytree_merge(dest, src) dest equals the reference merge of the
\* two values (recursive where both hold a map under a key, src's value
\* otherwise, dest's own keys kept), what dest took from src is a deep copy
\* (dest and src hold no object in common), src has the value it had, and a
\* merge of the empty map leaves dest as it was.
C18_ReferenceMerge ==
    op = "pytree_merge" =>
        /\ out = Ok(None, <<>>)
        /\ Deep(heap, dc) = reference_merge(held.dest, held.src)
        /\ Reach(heap, dc) \cap Reach(heap, arg) = {}
        /\ Deep(heap, arg) = held.src
        /\ held.src = EmptyMap => Deep(heap, dc) = held.dest

C18_Witness ==
    /\ op = "pytree_merge"
    /\ held.dest = M([a |-> M([x |-> I(1)]), b |-> I(1)])
    /\ held.src = M([a |-> M([x |-> L(<<I(7)>>)])])
    /\ Deep(heap, dc) = M([a |-> M([x |-> L(<<I(7)>>)]), b |-> I(1)])

(***************************************************************************)
(* flatten and deflatten                                                   *)
(***************************************************************************)
\* two dicts in insertion order are equal as Python compares them
SameDict(x, y) == {x[i] : i \in 1..Len(x)} = {y[i] : i \in 1..Len(y)}

\* the original reading of the round trips: they hold of every nested map
\* and of every single-level map
C19_MutuallyInverse ==
    /\ op = "flatten" => out = Ok(arg, <<>>)
    /\ op = "deflatten" => out.ok /\ SameDict(out.val.v, arg.v)

\* no key of d, at any level, holds the separator, and no map held in d is empty
RECURSIVE PlainKeys(_)
PlainKeys(d) ==
    \A k \in DOMAIN d.v :
        /\ find(Chars(k), ".") = -1
        /\ d.v[k].t = "map" => d.v[k] # EmptyMap /\ PlainKeys(d.v[k])

\* path p is a proper prefix of path q
ProperPrefix(p, q) == Len(p) < Len(q) /\ SubSeq(q, 1, Len(p)) = p

\* the keys of f are paths that do not start with the separator, and no path
\* is a proper prefix of another
PathKeys(f) ==
    /\ \A i \in 1..Len(f) : f[i].key = <<>> \/ Head(f[i].key) # "."
    /\ \A i, j \in 1..Len(f) : ~ProperPrefix(split(f[i].key, "."), split(f[j].key, "."))

\* C19: deflatten(flatten(d)) == d for every nested map d whose keys hold no
\* separator, whose top-level keys are not empty and that holds no empty map;
\* flatten(deflatten(f)) == f for every single-level map f whose keys are
\* dot-joined paths that do not start with the separator, none of them a
\* proper prefix of another.
C19_InverseOnPaths ==
    /\ op = "flatten" /\ PlainKeys(arg) /\ "" \notin DOMAIN arg.v => out = Ok(arg, <<>>)
    /\ op = "deflatten" /\ PathKeys(arg.v) => out.ok /\ SameDict(out.val.v, arg.v)

C19_Witness ==
    /\ op = "flatten"
    /\ arg = M([a |-> M(("" :> M([b |-> I(1)])) @@ ("b" :> I(1)))])
    /\ Len(held.v) = 2
    /\ out = Ok(arg, <<>>)

(***************************************************************************)
(* Concurrent first use of the two caches                                  *)
(***************************************************************************)
Done(t) == threads[t].pc = "returned"
SameCall(t, u) == threads[t].fn = threads[u].fn /\ threads[t].key = threads[u].key
CacheOf(fn) == IF fn = "get_decoding_fn" THEN cache ELSE pcache

\* two threads that made the same call hold equal results, or the same error
EqualResults(t, u) ==
    /\ threads[t].out.ok = threads[u].out.ok
    /\ IF threads[t].out.ok THEN threads[t].out.val.val = threads[u].out.val.val
       ELSE threads[t].out = threads[u].out

\* what a thread was handed is what the cache holds for its key
HoldsCached(t) ==
    threads[t].out.ok =>
        /\ InSeq(threads[t].key, CacheKeys(CacheOf(threads[t].fn)))
        /\ CacheOf(threads[t].fn)[Link(CacheOf(threads[t].fn), threads[t].key)].result.val
              = threads[t].out.val.val

SameObserved ==
    \A t, u \in Threads :
        Done(t) => HoldsCached(t) /\ (Done(u) /\ SameCall(t, u) => EqualResults(t, u))

\* a call made once the key is in the cache is handed the cached object and
\* computes nothing
NoLateMiss ==
    \A t \in Threads, fn \in {"get_decoding_fn", "get_choices"} :
        /\ CanStart(t)
        /\ threads'[t] # threads[t]
        /\ threads'[t].fn = fn
        /\ InSeq(threads'[t].key, CacheKeys(CacheOf(fn)))
        => /\ threads'[t].pc = "returned"
           /\ threads'[t].out = Ok(CacheOf(fn)[Link(CacheOf(fn), threads'[t].key)].result, <<>>)

\* an entry of the decode-function cache is never written again, and an entry
\* of a provider's cache is only ever replaced by an equal variant map
EntriesKept ==
    /\ \A i \in 1..Len(cache) : InSeq(cache[i], cache')
    /\ \A i \in 1..Len(pcache) : \E j \in 1..Len(pcache') :
          /\ pcache'[j].key = pcache[i].key
          /\ pcache'[j].result.val = pcache[i].result.val

Max(xs) == CHOOSE x \in xs : \A y \in xs : y <= x

\* the depth of a pytree: the maps nested in it
RECURSIVE Depth(_)
Depth(v) == IF v.t # "map" THEN 0
            ELSE 1 + Max({0} \cup {Depth(v.v[k]) : k \in DOMAIN v.v})

IsRecursionError(e) ==
    \/ e.kind = "RecursionError"
    \/ "cause" \in DOMAIN e /\ e.cause.kind = "RecursionError"

\* C21: the frames of a decode are bounded by the depth of the input tree and
\* of the schema graph (a path through the schema that repeats no class is no
\* longer than the number of its classes), and a schema that reaches itself
\* makes decode stop with an error of its own, never with the interpreter's
\* RecursionError.
C21_BoundedRecursion ==
    /\ op = "decoding" => Len(held) <= Depth(arg) + Cardinality(LinkClasses)
    /\ op = "decoded" /\ ~out.ok => ~IsRecursionError(out.err)

(***************************************************************************)
(* Enumerations: decode by member name, encode to the member name.         *)
(***************************************************************************)
\* the classes whose one field is of an enumeration type, and that type
EnumClasses == {"Pal", "Shade"}
EnumOf(c) == fields(c)[1].type.name
EnumKey(c) == fields(c)[1].name

\* a load_pytree of {field: s} for a string s
EnumLoad ==
    /\ op = "load_pytree" /\ cls \in EnumClasses
    /\ arg.t = "map" /\ DOMAIN arg.v = {EnumKey(cls)}
    /\ arg.v[EnumKey(cls)].t = "str"

\* an instance of one of the classes that holds a member of the enumeration
HoldsMember ==
    /\ Idle \/ op \in {"dump_pytree", "roundtrip"}
    /\ dc.t = "inst" /\ dc.cls \in EnumClasses
    /\ dc.v[EnumKey(dc.cls)].t = "enum"

\* C24: for every enumeration type E, also one that derives from a scalar
\* type with a registered decoder, decoding the string s gives the member of E
\* named s and an unknown name is an error; encoding a member gives its name;
\* and decoding the encoding of a member gives the member back.
C24_EnumByName ==
    /\ EnumLoad =>
          IF arg.v[EnumKey(cls)].v \in EnumMembers(EnumOf(cls))
          THEN out.ok /\ out.val.v[EnumKey(cls)] = En(EnumOf(cls), arg.v[EnumKey(cls)].v)
          ELSE ~out.ok
    /\ op = "dump_pytree" /\ HoldsMember =>
          out.ok /\ out.val.v[EnumKey(dc.cls)] = S(dc.v[EnumKey(dc.cls)].v)
    /\ op = "roundtrip" /\ HoldsMember =>
          out.ok /\ out.val = dc

(***************************************************************************)
(* Tuples: Pair.p is tuple[int, str], Pair.q is tuple[int, ...].           *)
(***************************************************************************)
\* a load_pytree of Pair from {k: a sequence}
TupleLoad(k) ==
    /\ op = "load_pytree" /\ cls = "Pair"
    /\ arg.t = "map" /\ DOMAIN arg.v = {k}
    /\ arg.v[k].t \in {"list", "str"}

\* the item types of Pair.k, the ellipsis left out
ItemTypes(k) == SelectSeq(FieldOf("Pair", k).type.args, LAMBDA t : t # Ellipsis)

\* the i-th value of xs decoded with the type at i of item_types, or with its
\* only type
ItemDecoded(item_types, xs, i) ==
    decode(item_types[IF Len(item_types) = 1 THEN 1 ELSE i], xs[i])

\* out is the tuple of the values of xs, each decoded with its item type, or
\* an error when one of them is refused
Itemwise(k, xs) ==
    IF \A i \in 1..Len(xs) : ItemDecoded(ItemTypes(k), xs, i).ok
    THEN /\ out.ok
         /\ out.val.v[k] = Tu([i \in 1..Len(xs) |-> ItemDecoded(ItemTypes(k), xs, i).val])
    ELSE ~out.ok

C26_AtMostOnce == \A p \in PluginProviders : held[p] <= 1

\* provider p holds a memoized variant map
Memoized(p) == cache_hit(pcache, p)
Memo(p) == pcache[Link(pcache, p)].result

\* a step in which provider p enumerates the namespace
Enumerates(p) == p \in PluginProviders /\ held'[p] > held[p]

\* a step that is a lookup on provider p
LooksUp(p) == op' = "get_value" /\ arg'.provider = p

\* declaring a field enumerates nothing
DeclaredLazily ==
    op' = "plugin" =>
        /\ held'[Len(held')] = 0
        /\ pcache' = pcache
        /\ \A p \in PluginProviders : ~Enumerates(p)

\* an enumeration is run by a lookup on a provider that holds no memoized
\* map, it enumerates every sub-module the namespace holds, and the map it
\* returned is memoized
FirstLookupEnumerates ==
    \A p \in PluginProviders :
        /\ Enumerates(p) => LooksUp(p) /\ ~Memoized(p)
        /\ LooksUp(p) /\ ~Memoized(p) =>
              /\ Enumerates(p)
              /\ Plugin_get_choices(heap).ok =>
                    /\ cache_hit(pcache', p)
                    /\ pcache'[Link(pcache', p)].result = Plugin_get_choices(heap).val
              /\ ~Plugin_get_choices(heap).ok => ~cache_hit(pcache', p) /\ ~out'.ok

\* with a memoized map every lookup is answered from it, and it stays
AnsweredFromMemo ==
    \A p \in PluginProviders :
        Memoized(p) =>
            /\ ~Enumerates(p)
            /\ cache_hit(pcache', p) /\ pcache'[Link(pcache', p)].result = Memo(p)
            /\ LooksUp(p) => out' = Ok(get_value(Memo(p), arg'.name), <<>>)

\* C26 amended: nothing is enumerated when the field is declared; a lookup on
\* a provider that holds no memoized map enumerates every direct sub-unit and
\* memoizes the map if the enumeration returned one; after that every lookup
\* on the provider is answered from the memoized map without enumerating
\* again; an enumeration that raised memoizes nothing.
C26_OnceReturned == [][DeclaredLazily /\ FirstLookupEnumerates /\ AnsweredFromMemo]_vars

\* a lookup answered from the memoized map after the namespace has changed
C26_Witness ==
    /\ op = "get_value"
    /\ Memoized(arg.provider)
    /\ held[arg.provider] = 1
    /\ Plugin_get_choices(heap).ok
    /\ Plugin_get_choices(heap).val # Memo(arg.provider)
    /\ out = Ok(get_value(Memo(arg.provider), arg.name), <<>>)
    /\ out.val # get_value(Plugin_get_choices(heap).val, arg.name)

(***************************************************************************)
(* Decoders registered after a first decode.                               *)
(***************************************************************************)
\* the function registered for Path as the registry stands
RegisteredNow == Get_(decoders, "Path").func

\* C28 as stated: a decode of Path, or of a container, union or record field
\* of item type Path, uses the function that is registered for Path when
\* the decode starts.
C28_InEffect == (req # None /\ req.op = "decode") => req.uses = RegisteredNow

\* the handler the cache holds for ty
Cached(ty) == cache[Link(cache, ty)].result

\* the function a decode of ty hands a value of type Path to, as the cache
\* and the registry stand
InUse(ty) ==
    IF ty \in Containers /\ lru_hit(cache, ty) THEN Applied(Cached(ty).decode_item)
    ELSE IF lru_hit(cache, "Path") THEN Applied(Cached("Path"))
    ELSE RegisteredNow

\* C28 amended: a registration leaves the cache of handlers as it is; a later
\* decode of Path, or of a container, union or record field of item type Path,
\* uses the registered function if the cache holds no handler for Path and
\* none for the container or union type, and otherwise the handler that the
\* cache holds.
C28_InEffectUnlessCached ==
    [][/\ req'.op = "add_decoder" => cache' = cache
       /\ req'.op = "decode" => req'.uses = InUse(req'.ty)]_vars

\* list[Path] decoded for the first time after add_decoder(Path, g) uses g
C28_Witness ==
    /\ req # None /\ req.op = "decode" /\ req.ty = "list[Path]"
    /\ RegisteredNow = [fn |-> "g"]
    /\ req.uses = [fn |-> "g"]
    /\ lru_hit(cache, "list[Path]")
    /\ Cached("list[Path]").decode_item = [fn |-> "g"]

(***************************************************************************)
(* C29: the order of the override sources of load                          *)
(***************************************************************************)
\* a load that went as far as its decode
LoadDecoded == op = "load" /\ "decode" \in Range(Steps(out.log))

\* the three sources of a load, as pytrees
StreamTree == parse_stream(arg.stream).val
OverridesTree == IF arg.overrides = None THEN EmptyMap ELSE arg.overrides
DotTree ==
    IF arg.dotlist_overrides = None THEN EmptyMap
    ELSE encode_dotlist(arg.dotlist_overrides.v).val

\* the pytree a load handed to decode: what its last merge left
DecodeInput ==
    IF Merges(out.log) = <<>> THEN StreamTree
    ELSE Merges(out.log)[Len(Merges(out.log))].pytree

\* the key paths a source sets: those that end at a value other than a
\* non-empty map (the empty pytree sets none)
SetPaths(p) == IF p = EmptyMap THEN {} ELSE LeafPaths(p)
Untouched(q, p) == \A r \in SetPaths(p) : ~Related(q, r)

\* the decoded pytree holds at q what source p sets there; an empty map is
\* merged into the map below it, as pytree_merge does with two maps
Wins(p, q) ==
    IF Get(p, q) = EmptyMap THEN Get(DecodeInput, q).t = "map"
    ELSE Get(DecodeInput, q) = Get(p, q)

\* the steps a load with these sources goes through when nothing fails
StepOrder ==
    <<"parse">>
    \o (IF arg.overrides # None THEN <<"pytree_merge">> ELSE <<>>)
    \o (IF arg.dotlist_overrides # None THEN <<"encode_dotlist", "pytree_merge">> ELSE <<>>)
    \o <<"decode">>

\* token i is the last one with its key, and no other key of the dotlist
\* is a prefix or an extension of it
LastOfKey(toks, i) ==
    /\ \A j \in (i + 1)..Len(toks) : TokenPath(toks[j]) # TokenPath(toks[i])
    /\ \A j \in 1..Len(toks) :
         \/ TokenPath(toks[j]) = TokenPath(toks[i])
         \/ ~Related(TokenPath(toks[j]), TokenPath(toks[i]))

ChoiceDecoded == ChoiceLoad /\ out.ok

\* the name the variant was selected by: the discriminator key of the raw
\* map, or the default of the discriminator field of the target schema
SelectedName ==
    IF "name" \in DOMAIN RawChoice.v THEN RawChoice.v.name ELSE TargetDefault(cls)

\* decode(schema, encode(x)) of the instance the load returned
DecodedAgain == Then(dump_pytree(out.val), LAMBDA pytree : load_pytree(cls, pytree))

\* C30: the variant instance a decode selected holds in its discriminator
\* field the name it was selected by, also when the name came from the
\* default of the declared target schema, and decoding the encoding of the
\* decoded instance selects the same variant and gives an equal instance.
C30_ChoiceRoundTrip ==
    ChoiceDecoded =>
        /\ "name" \in DOMAIN Config(Something).v
        /\ Config(Something).v.name = SelectedName
        /\ DecodedAgain.ok
        /\ Variant(DecodedAgain.val.v.something) = Variant(Something)
        /\ DecodedAgain.val = out.val
====
